---------------------------- MODULE Spec2Model ----------------------------
(***************************************************************************)
(* A model of the algorithms suite of the student-registration repository: *)
(* the sort engine (AdvancedSortingEngine) and the search engine           *)
(* (AdvancedSearchEngine).  Every routine of the suite is a synchronous    *)
(* call on caller-owned data, so the state of the program is the call in   *)
(* progress: its arguments, the locals of a loop that is modelled step by  *)
(* step, and the way the call ended.                                       *)
(***************************************************************************)
EXTENDS Integers, Sequences, FiniteSets, TLC

VARIABLES
  call,      \* the invocation: [fn |-> name of the method, <its arguments>]
  frame,     \* the locals of the running method, for a loop modelled stepwise
  outcome    \* [status |-> "pending" | "returned" | "threw", value |-> ...]

vars == <<call, frame, outcome>>

Pending == [status |-> "pending", value |-> <<>>]
Returned(v) == [status |-> "returned", value |-> v]
Threw(e) == [status |-> "threw", value |-> e]
NoFrame == <<>>

(***************************************************************************)
(* Generic helpers on sequences.                                           *)
(***************************************************************************)
Range(s) == {s[i] : i \in 1..Len(s)}

SeqsUpTo(S, n) == UNION {[1..k -> S] : k \in 0..n}

Min2(a, b) == IF a <= b THEN a ELSE b

Max2(a, b) == IF a >= b THEN a ELSE b

(***************************************************************************)
(* AdvancedSortingEngine.topologicalSort                                   *)
(*                                                                         *)
(* A Course is [id, prerequisites]; its name plays no part in the          *)
(* ordering.  A JavaScript Map iterates in insertion order, so inDegree is *)
(* a pair: the keys in insertion order and the count per key.              *)
(***************************************************************************)
MaxPrereqs == 2

CourseIds == <<"c1", "c2", "c3">>

\* an id that a course may name as prerequisite although no course has it
UnknownId == "zz"

PrereqIds == Range(CourseIds) \cup {UnknownId}

\* a prerequisite list may name an id twice
PrereqLists == SeqsUpTo(PrereqIds, MaxPrereqs)

\* Course lists with distinct ids; which id stands where is immaterial up to
\* renaming, so the i-th course carries the i-th id.
CourseList(n, p) == [i \in 1..n |-> [id |-> CourseIds[i], prerequisites |-> p[i]]]

\* the value of courses.find(...) when no course has the id
UndefinedCourse == [undefined |-> TRUE]

\* courses.find(c => c.id === currentId)
RECURSIVE FindCourse(_, _)
FindCourse(courses, id) ==
  IF courses = <<>> THEN UndefinedCourse
  ELSE IF Head(courses).id = id THEN Head(courses)
  ELSE FindCourse(Tail(courses), id)

\* graph.get(currentId) || []
GraphGet(courses, id) ==
  LET c == FindCourse(courses, id)
  IN  IF c = UndefinedCourse THEN <<>> ELSE c.prerequisites

\* inDegree.set(prereq, (inDegree.get(prereq) || 0) + 1) for each prereq
RECURSIVE CountPrereqs(_, _)
CountPrereqs(prereqs, inDegree) ==
  IF prereqs = <<>> THEN inDegree
  ELSE LET p == Head(prereqs)
           known == p \in DOMAIN inDegree.deg
           next == IF known
                     THEN [inDegree EXCEPT !.deg[p] = @ + 1]
                     ELSE [keys |-> Append(inDegree.keys, p),
                           deg  |-> [k \in DOMAIN inDegree.deg \cup {p} |->
                                       IF k = p THEN 1 ELSE inDegree.deg[k]]]
       IN  CountPrereqs(Tail(prereqs), next)

RECURSIVE CountAll(_, _)
CountAll(courses, inDegree) ==
  IF courses = <<>> THEN inDegree
  ELSE CountAll(Tail(courses), CountPrereqs(Head(courses).prerequisites, inDegree))

\* the two courses.forEach passes that fill inDegree
BuildInDegree(courses) ==
  CountAll(courses,
           [keys |-> [i \in 1..Len(courses) |-> courses[i].id],
            deg  |-> [k \in {courses[i].id : i \in 1..Len(courses)} |-> 0]])

\* inDegree.forEach((degree, courseId) => { if (degree === 0) queue.push(courseId) })
RECURSIVE InitialQueue(_, _)
InitialQueue(keys, deg) ==
  IF keys = <<>> THEN <<>>
  ELSE (IF deg[Head(keys)] = 0 THEN <<Head(keys)>> ELSE <<>>)
         \o InitialQueue(Tail(keys), deg)

\* the forEach over the neighbours of the dequeued course
RECURSIVE Relax(_, _, _)
Relax(neighbors, queue, deg) ==
  IF neighbors = <<>> THEN [queue |-> queue, deg |-> deg]
  ELSE LET nb == Head(neighbors)
           deg2 == [deg EXCEPT ![nb] = @ - 1]
       IN  Relax(Tail(neighbors),
                 IF deg2[nb] = 0 THEN Append(queue, nb) ELSE queue,
                 deg2)

\* while (queue.length > 0) { ... }
RECURSIVE KahnLoop(_, _, _, _)
KahnLoop(courses, queue, deg, result) ==
  IF queue = <<>> THEN result
  ELSE LET currentId == Head(queue)
           currentCourse == FindCourse(courses, currentId)
           st == Relax(GraphGet(courses, currentId), Tail(queue), deg)
       IN  KahnLoop(courses, st.queue, st.deg, Append(result, currentCourse))

topologicalSort(courses) ==
  LET inDegree == BuildInDegree(courses)
  IN  KahnLoop(courses, InitialQueue(inDegree.keys, inDegree.deg), inDegree.deg, <<>>)

InitTopo ==
  /\ \E n \in 0..Len(CourseIds) : \E p \in [1..n -> PrereqLists] :
       call = [fn |-> "topologicalSort", courses |-> CourseList(n, p)]
  /\ frame = NoFrame
  /\ outcome = Pending

TopologicalSort ==
  /\ call.fn = "topologicalSort"
  /\ outcome.status = "pending"
  /\ outcome' = Returned(topologicalSort(call.courses))
  /\ UNCHANGED <<call, frame>>

NextTopo == TopologicalSort

SpecTopo == InitTopo /\ [][NextTopo]_vars

\* the ids of the listed courses
ListedIds(courses) == {courses[i].id : i \in 1..Len(courses)}

\* ids reachable from id by one or more prerequisite edges between listed courses
RECURSIVE ReachFrom(_, _, _)
ReachFrom(courses, frontier, seen) ==
  LET step == {p \in ListedIds(courses) :
                 \E i \in 1..Len(courses) :
                   /\ courses[i].id \in frontier
                   /\ p \in Range(courses[i].prerequisites)}
      new == step \ seen
  IN  IF new = {} THEN seen ELSE ReachFrom(courses, new, seen \cup new)

OnCycle(courses, id) == id \in ReachFrom(courses, {id}, {})

CyclicIds(courses) == {id \in ListedIds(courses) : OnCycle(courses, id)}

ResultIds(result) ==
  {result[i].id : i \in {j \in 1..Len(result) : result[j] # UndefinedCourse}}

\* C1: given a course list whose prerequisite edges contain a cycle,
\* topologicalSort never returns normally with a list that omits the courses on
\* the cycle (it must fail or signal the cycle instead).
TopoCycleIsSignalled ==
  (call.fn = "topologicalSort" /\ outcome.status = "returned")
    => CyclicIds(call.courses) \subseteq ResultIds(outcome.value)

\* a cyclic course list has been sorted
TopoCycleSorted ==
  /\ call.fn = "topologicalSort"
  /\ outcome.status = "returned"
  /\ CyclicIds(call.courses) # {}

(***************************************************************************)
(* The records the sort engine orders.  A Student is reduced to its        *)
(* identity (id) and the numeric fields the sort keys name; arrays are     *)
(* 1-based here, so low, mid, high, i and j are the source's index + 1.    *)
(***************************************************************************)
MaxSortLen == 4

MaxThreshold == 3

\* threshold: number = 10
DefaultThreshold == 10

Years == 1..3

Semesters == 1..2

\* the students array: the i-th record has id i, so every record is distinct
StudentArray(n, ys, ss) == [i \in 1..n |-> [id |-> i, year |-> ys[i], semester |-> ss[i]]]

Asc(f) == [field |-> f, direction |-> "asc"]

Desc(f) == [field |-> f, direction |-> "desc"]

\* the key sequences the comparator is built from; <<>> compares everything equal
SortKeySeqs ==
  { <<>>, <<Asc("year")>>, <<Desc("year")>>, <<Asc("semester"), Desc("year")>>,
    <<Desc("year"), Asc("semester")>> }

\* path.split('.').reduce((current, key) => current?.[key], obj), on a one-step path
getNestedValue(obj, path) == obj[path]

\* the weight of a letter in the collation: the letter, then lower case
\* before upper case
CollationWeight(c, level) ==
  IF level = "primary" THEN (IF c \in {"a", "A"} THEN 1 ELSE 2)
  ELSE (IF c \in {"a", "b"} THEN 0 ELSE 1)

\* the first difference of the weights at one level; a prefix comes first
RECURSIVE CompareAtLevel(_, _, _)
CompareAtLevel(x, y, level) ==
  IF x = <<>> /\ y = <<>> THEN 0
  ELSE IF x = <<>> THEN -1
  ELSE IF y = <<>> THEN 1
  ELSE IF CollationWeight(Head(x), level) # CollationWeight(Head(y), level)
         THEN (IF CollationWeight(Head(x), level) < CollationWeight(Head(y), level)
                 THEN -1 ELSE 1)
  ELSE CompareAtLevel(Tail(x), Tail(y), level)

\* aValue.localeCompare(bValue): the letters decide, then the case
localeCompare(x, y) ==
  IF CompareAtLevel(x, y, "primary") # 0 THEN CompareAtLevel(x, y, "primary")
  ELSE CompareAtLevel(x, y, "tertiary")

\* typeof of the field's value in a Student
TypeOfField(field) ==
  IF field \in {"year", "semester"} THEN "number"
  ELSE IF field \in {"firstName"} THEN "string"
  ELSE IF field \in {"enrollmentDate"} THEN "Date"
  ELSE "object"

\* comparison, as set by the branch for the values' type, 0 without a branch
KeyComparison(field, aValue, bValue) ==
  IF TypeOfField(field) = "string" THEN localeCompare(aValue, bValue)
  ELSE IF TypeOfField(field) = "number" THEN aValue - bValue
  ELSE IF TypeOfField(field) = "Date" THEN aValue.time - bValue.time
  ELSE 0

\* the comparator that visits the first key only
compareFnFirstKey(sortKeys, a, b) ==
  IF sortKeys = <<>> THEN 0
  ELSE LET key == Head(sortKeys)
           comparison == KeyComparison(key.field, getNestedValue(a, key.field),
                                       getNestedValue(b, key.field))
       IN  IF key.direction = "desc" THEN -comparison ELSE comparison

\* the comparator multiKeySort hands to hybridQuickSort
RECURSIVE compareFn(_, _, _)
compareFn(sortKeys, a, b) ==
  IF sortKeys = <<>> THEN 0
  ELSE LET key == Head(sortKeys)
           comparison == KeyComparison(key.field, getNestedValue(a, key.field),
                                       getNestedValue(b, key.field))
       IN  IF comparison # 0
             THEN (IF key.direction = "desc" THEN -comparison ELSE comparison)
             ELSE compareFn(Tail(sortKeys), a, b)

\* [arr[i], arr[j]] = [arr[j], arr[i]]
Swap(arr, i, j) == [arr EXCEPT ![i] = arr[j], ![j] = arr[i]]

\* F of the value of v, with v worked out once before F is entered
Once(v, F(_)) == CHOOSE r \in {F(x) : x \in {v}} : TRUE

\* A long loop is run by halves: the first half of its turns, then the rest
\* from the state the first half left. Each half first reads the state it starts
\* from, so that state is worked out before the half is entered.

\* one turn of: while (j >= low && compareFn(arr[j], key) > 0) { arr[j + 1] = arr[j]; j-- }
\* (once the condition fails, the loop has ended and further turns change nothing)
ShiftStep(st, low, key, cmp) ==
  IF st.j >= low /\ compareFn(cmp, st.arr[st.j], key) > 0
    THEN [arr |-> [st.arr EXCEPT ![st.j + 1] = st.arr[st.j]], j |-> st.j - 1]
    ELSE st

RECURSIVE ShiftSteps(_, _, _, _, _)
ShiftSteps(st, low, key, cmp, turns) ==
  IF turns <= 0 \/ st.j < low THEN st
  ELSE IF turns = 1 THEN ShiftStep(st, low, key, cmp)
  ELSE ShiftSteps(ShiftSteps(st, low, key, cmp, turns \div 2), low, key, cmp,
                  turns - turns \div 2)

\* arr[j + 1] = key
PlaceKey(st, key) == [st.arr EXCEPT ![st.j + 1] = key]

\* the while loop, which takes at most j - low + 1 turns, and the store after it
InsertShift(arr, low, j, key, cmp) ==
  PlaceKey(ShiftSteps([arr |-> arr, j |-> j], low, key, cmp, j - low + 1), key)

\* for (let i = low + 1; i <= high; i++) { const key = arr[i]; let j = i - 1; ... }
\* from i on
RECURSIVE InsertLoop(_, _, _, _, _)
InsertLoop(arr, low, high, i, cmp) ==
  IF i > high \/ arr = <<>> THEN arr
  ELSE IF i = high THEN InsertShift(arr, low, i - 1, arr[i], cmp)
  ELSE InsertLoop(InsertLoop(arr, low, (i + high) \div 2, i, cmp),
                  low, high, (i + high) \div 2 + 1, cmp)

insertionSort(arr, low, high, cmp) == InsertLoop(arr, low, high, low + 1, cmp)

\* for (let j = low; j < high; j++) if (compareFn(arr[j], pivot) <= 0) { i++; swap(i, j) }
RECURSIVE PartitionLoop(_, _, _, _, _, _)
PartitionLoop(arr, j, high, pivot, i, cmp) ==
  IF j < high
    THEN IF compareFn(cmp, arr[j], pivot) <= 0
           THEN Once(Swap(arr, i + 1, j),
                     LAMBDA swapped : PartitionLoop(swapped, j + 1, high, pivot, i + 1, cmp))
           ELSE PartitionLoop(arr, j + 1, high, pivot, i, cmp)
    ELSE [arr |-> arr, i |-> i]

\* the median-of-three exchanges and the move of the pivot to arr[high]
MedianOfThree(arr, low, high, cmp) ==
  LET mid == (low + high) \div 2
      First(a) == IF compareFn(cmp, a[mid], a[low]) < 0 THEN Swap(a, low, mid) ELSE a
      Second(a) == IF compareFn(cmp, a[high], a[low]) < 0 THEN Swap(a, low, high) ELSE a
      Third(a) == IF compareFn(cmp, a[high], a[mid]) < 0 THEN Swap(a, mid, high) ELSE a
      Last(a) == [arr |-> Swap(a, mid, high), pivot |-> a[mid]]
  IN  Once(First(arr), LAMBDA a1 : Once(Second(a1), LAMBDA a2 : Once(Third(a2), Last)))

\* a partition that forgets to move the pivot between the two parts
partitionNoFinalSwap(arr, low, high, cmp) ==
  Once(MedianOfThree(arr, low, high, cmp), LAMBDA m :
    Once(PartitionLoop(m.arr, low, high, m.pivot, low - 1, cmp), LAMBDA st :
      [arr |-> st.arr, pivotIndex |-> st.i + 1]))

partition(arr, low, high, cmp) ==
  Once(MedianOfThree(arr, low, high, cmp), LAMBDA m :
    Once(PartitionLoop(m.arr, low, high, m.pivot, low - 1, cmp), LAMBDA st :
      [arr |-> Swap(st.arr, st.i + 1, high), pivotIndex |-> st.i + 1]))

RECURSIVE quickSortHybrid(_, _, _, _, _)
quickSortHybrid(arr, low, high, cmp, threshold) ==
  IF low < high
    THEN IF high - low + 1 < threshold
           THEN insertionSort(arr, low, high, cmp)
           ELSE Once(partition(arr, low, high, cmp), LAMBDA p :
                  Once(quickSortHybrid(p.arr, low, p.pivotIndex - 1, cmp, threshold),
                       LAMBDA left :
                         quickSortHybrid(left, p.pivotIndex + 1, high, cmp, threshold)))
    ELSE arr

\* const result = [...arr]; quickSortHybrid(result, 0, result.length - 1, ...)
hybridQuickSort(arr, cmp, threshold) == quickSortHybrid(arr, 1, Len(arr), cmp, threshold)

Thresholds == 0..MaxThreshold \cup {DefaultThreshold}

InitQuick ==
  /\ \E n \in 0..MaxSortLen : \E ys \in [1..n -> Years] : \E ss \in [1..n -> Semesters] :
       \E keys \in SortKeySeqs : \E t \in Thresholds :
         call = [fn |-> "hybridQuickSort", arr |-> StudentArray(n, ys, ss),
                 compareFn |-> keys, threshold |-> t]
  /\ frame = NoFrame
  /\ outcome = Pending

HybridQuickSort ==
  /\ call.fn = "hybridQuickSort"
  /\ outcome.status = "pending"
  /\ outcome' = Returned(hybridQuickSort(call.arr, call.compareFn, call.threshold))
  /\ UNCHANGED <<call, frame>>

NextQuick == HybridQuickSort

SpecQuick == InitQuick /\ [][NextQuick]_vars

\* how often x stands in s
Count(s, x) == Cardinality({i \in 1..Len(s) : s[i] = x})

\* s and t hold the same elements, each as often in the one as in the other
SameElements(s, t) ==
  /\ Len(s) = Len(t)
  /\ \A x \in Range(s) \cup Range(t) : Count(s, x) = Count(t, x)

\* no element compares greater than any later element
Ordered(s, cmp) == \A i, j \in 1..Len(s) : i < j => compareFn(cmp, s[i], s[j]) <= 0

\* C2: for every array, every total-preorder comparator and every threshold >= 0,
\* hybridQuickSort returns a permutation of its input in which no element
\* compares greater than any later element.
QuickSortSortsPermutation ==
  (call.fn = "hybridQuickSort" /\ outcome.status # "pending")
    => /\ outcome.status = "returned"
       /\ SameElements(outcome.value, call.arr)
       /\ Ordered(outcome.value, call.compareFn)

\* an unordered array with ties, long enough to be partitioned, has been sorted
QuickSortPartitioned ==
  /\ call.fn = "hybridQuickSort"
  /\ outcome.status = "returned"
  /\ Len(call.arr) >= call.threshold
  /\ Len(call.arr) >= 3
  /\ ~Ordered(call.arr, call.compareFn)
  /\ \E i, j \in 1..Len(call.arr) :
       i # j /\ compareFn(call.compareFn, call.arr[i], call.arr[j]) = 0
  /\ outcome.value # call.arr

(***************************************************************************)
(* AdvancedSortingEngine.timSort                                           *)
(***************************************************************************)
\* const minMerge = 32
minMerge == 32

MaxTimLen == 66

MaxCoef == 2

\* lengths below, at and above one run, and at and above two runs
TimLengths ==
  0..2 \cup {minMerge - 1, minMerge, minMerge + 1} \cup (2 * minMerge - 1)..MaxTimLen

Moduli == {2, 3, 5}

\* An array too long to enumerate is drawn from a family: the i-th record has
\* year (a*i*i + b*i) mod m + 1, so the keys repeat, rise and fall.
TimArray(n, a, b, m) ==
  [i \in 1..n |-> [id |-> i, year |-> ((a * i * i + b * i) % m) + 1,
                   semester |-> ((i \div 2) % 2) + 1]]

\* one turn of the three loops, which run one after the other:
\* while (i < leftArr.length && j < rightArr.length) { ... }
\* while (i < leftArr.length) arr[k++] = leftArr[i++]
\* while (j < rightArr.length) arr[k++] = rightArr[j++]
MergeStep(st, leftArr, rightArr, cmp) ==
  IF st.i <= Len(leftArr) /\ st.j <= Len(rightArr)
    THEN IF compareFn(cmp, leftArr[st.i], rightArr[st.j]) <= 0
           THEN [arr |-> [st.arr EXCEPT ![st.k] = leftArr[st.i]],
                 i |-> st.i + 1, j |-> st.j, k |-> st.k + 1]
           ELSE [arr |-> [st.arr EXCEPT ![st.k] = rightArr[st.j]],
                 i |-> st.i, j |-> st.j + 1, k |-> st.k + 1]
    ELSE IF st.i <= Len(leftArr)
           THEN [arr |-> [st.arr EXCEPT ![st.k] = leftArr[st.i]],
                 i |-> st.i + 1, j |-> st.j, k |-> st.k + 1]
    ELSE IF st.j <= Len(rightArr)
           THEN [arr |-> [st.arr EXCEPT ![st.k] = rightArr[st.j]],
                 i |-> st.i, j |-> st.j + 1, k |-> st.k + 1]
    ELSE st

\* each turn takes one element of leftArr or rightArr, so the loops take
\* leftArr.length + rightArr.length turns together
RECURSIVE MergeLoop(_, _, _, _, _)
MergeLoop(st, leftArr, rightArr, cmp, turns) ==
  IF turns <= 0 \/ st.k > Len(st.arr) THEN st
  ELSE IF turns = 1 THEN MergeStep(st, leftArr, rightArr, cmp)
  ELSE MergeLoop(MergeLoop(st, leftArr, rightArr, cmp, turns \div 2), leftArr, rightArr, cmp,
                 turns - turns \div 2)

\* a merge that takes the right element first when the two compare equal
MergeStepRightFirst(st, leftArr, rightArr, cmp) ==
  IF st.i <= Len(leftArr) /\ st.j <= Len(rightArr)
    THEN IF compareFn(cmp, leftArr[st.i], rightArr[st.j]) < 0
           THEN [arr |-> [st.arr EXCEPT ![st.k] = leftArr[st.i]],
                 i |-> st.i + 1, j |-> st.j, k |-> st.k + 1]
           ELSE [arr |-> [st.arr EXCEPT ![st.k] = rightArr[st.j]],
                 i |-> st.i, j |-> st.j + 1, k |-> st.k + 1]
    ELSE MergeStep(st, leftArr, rightArr, cmp)

RECURSIVE MergeLoopRightFirst(_, _, _, _, _)
MergeLoopRightFirst(st, leftArr, rightArr, cmp, turns) ==
  IF turns <= 0 \/ st.k > Len(st.arr) THEN st
  ELSE IF turns = 1 THEN MergeStepRightFirst(st, leftArr, rightArr, cmp)
  ELSE MergeLoopRightFirst(MergeLoopRightFirst(st, leftArr, rightArr, cmp, turns \div 2),
                           leftArr, rightArr, cmp, turns - turns \div 2)

\* let i = 0, j = 0, k = left
MergeStart(arr, left) == [arr |-> arr, i |-> 1, j |-> 1, k |-> left]

mergeRightFirst(arr, left, mid, right, cmp) ==
  MergeLoopRightFirst(MergeStart(arr, left), SubSeq(arr, left, mid), SubSeq(arr, mid + 1, right),
                      cmp, right - left + 1).arr

\* left, mid and right are the source's index + 1
merge(arr, left, mid, right, cmp) ==
  MergeLoop(MergeStart(arr, left), SubSeq(arr, left, mid), SubSeq(arr, mid + 1, right),
            cmp, right - left + 1).arr

\* for (let i = 0; i < n; i += minMerge) insertionSort(result, i, min(i + minMerge - 1, n - 1))
RECURSIVE RunLoop(_, _, _, _)
RunLoop(arr, i, n, cmp) ==
  IF i < n /\ arr # <<>>
    THEN RunLoop(insertionSort(arr, i + 1, Min2(i + minMerge - 1, n - 1) + 1, cmp),
                 i + minMerge, n, cmp)
    ELSE arr

\* for (let start = 0; start < n; start += size * 2) { ... }
RECURSIVE StartLoop(_, _, _, _, _)
StartLoop(arr, start, size, n, cmp) ==
  IF start < n /\ arr # <<>>
    THEN LET mid == start + size - 1
             end == Min2(start + size * 2 - 1, n - 1)
         IN  StartLoop(IF mid < end THEN merge(arr, start + 1, mid + 1, end + 1, cmp) ELSE arr,
                       start + size * 2, size, n, cmp)
    ELSE arr

\* for (let size = minMerge; size < n; size *= 2) { ... }
RECURSIVE SizeLoop(_, _, _, _)
SizeLoop(arr, size, n, cmp) ==
  IF size < n /\ arr # <<>>
    THEN SizeLoop(StartLoop(arr, 0, size, n, cmp), size * 2, n, cmp)
    ELSE arr

timSort(arr, cmp) ==
  LET n == Len(arr)
  IN  SizeLoop(RunLoop(arr, 0, n, cmp), minMerge, n, cmp)

InitTim ==
  /\ \E n \in TimLengths : \E a \in 0..MaxCoef : \E b \in 0..MaxCoef : \E m \in Moduli :
       \E keys \in SortKeySeqs :
         call = [fn |-> "timSort", arr |-> TimArray(n, a, b, m), compareFn |-> keys]
  /\ frame = NoFrame
  /\ outcome = Pending

TimSort ==
  /\ call.fn = "timSort"
  /\ outcome.status = "pending"
  /\ outcome' = Returned(timSort(call.arr, call.compareFn))
  /\ UNCHANGED <<call, frame>>

NextTim == TimSort

SpecTim == InitTim /\ [][NextTim]_vars

\* the place of a record of s in the array t it was taken from
IndexIn(t, x) == CHOOSE i \in 1..Len(t) : t[i] = x

\* records that compare equal stand in s in the order they have in t
Stable(s, t, cmp) ==
  \A i, j \in 1..Len(s) :
    (i < j /\ compareFn(cmp, s[i], s[j]) = 0) => IndexIn(t, s[i]) < IndexIn(t, s[j])

\* C3: for every array, shorter than, as long as or longer than a run, and every
\* total-preorder comparator, timSort returns a permutation of its input that is
\* ordered per the comparator and keeps records that compare equal in their
\* input order.
TimSortStableSort ==
  (call.fn = "timSort" /\ outcome.status # "pending")
    => /\ outcome.status = "returned"
       /\ SameElements(outcome.value, call.arr)
       /\ Ordered(outcome.value, call.compareFn)
       /\ Stable(outcome.value, call.arr, call.compareFn)

\* an unordered array of more than two runs, with records that compare equal in
\* different runs, has been sorted by two levels of merges
TimSortMerged ==
  /\ call.fn = "timSort"
  /\ outcome.status = "returned"
  /\ Len(call.arr) > 2 * minMerge
  /\ ~Ordered(call.arr, call.compareFn)
  /\ compareFn(call.compareFn, call.arr[1], call.arr[2 * minMerge + 1]) = 0
  /\ compareFn(call.compareFn, call.arr[1], call.arr[2]) # 0

(***************************************************************************)
(* AdvancedSortingEngine.radixSort                                         *)
(*                                                                         *)
(* A slot of a JavaScript array holds a number or, where nothing was       *)
(* written, undefined.                                                     *)
(***************************************************************************)
MaxRadixLen == 3

\* one-, two- and three-digit values that share digits, and negative ones
RadixValues == {-12, -10, -1, 0, 2, 9, 10, 12, 21, 90, 100, 102}

RadixExample == <<170, 45, 75, 90, 802, 24, 2, 66>>

Num(n) == [num |-> n]

UndefinedValue == [undefined |-> TRUE]

Nums(s) == [i \in 1..Len(s) |-> Num(s[i])]

\* JavaScript's a % b for b > 0: the sign of the result is the sign of a
JsRemainder(a, b) == IF a >= 0 THEN a % b ELSE -((-a) % b)

\* Math.floor(arr[i] / exp) % 10; NaN for an undefined slot
IsNaNDigit(x) == x = UndefinedValue

Digit(x, exp) == JsRemainder(x.num \div exp, 10)

\* count[digit] is a counter of the array only for digit 0..9 (and -0): any other
\* key makes count[digit] NaN, and output[NaN] is not a slot of output
ValidDigit(x, exp) == ~IsNaNDigit(x) /\ Digit(x, exp) \in 0..9

\* the first two loops: count[d] after "count[i] += count[i - 1]"
Cumulative(arr, exp) ==
  [d \in 0..9 |->
     Cardinality({i \in 1..Len(arr) : ValidDigit(arr[i], exp) /\ Digit(arr[i], exp) <= d})]

\* for (let i = n - 1; i >= 0; i--) { output[count[digit] - 1] = arr[i]; count[digit]--; }
\* (i and the positions in output are the source's index + 1)
RECURSIVE BuildOutput(_, _, _, _, _)
BuildOutput(arr, exp, i, count, output) ==
  IF i >= 1 /\ output # <<>>
    THEN IF ValidDigit(arr[i], exp)
           THEN LET digit == Digit(arr[i], exp)
                IN  BuildOutput(arr, exp, i - 1, [count EXCEPT ![digit] = @ - 1],
                                [output EXCEPT ![count[digit]] = arr[i]])
           ELSE BuildOutput(arr, exp, i - 1, count, output)
    ELSE output

\* a counting sort that fills the output from the first element on: not stable
RECURSIVE BuildOutputForward(_, _, _, _, _)
BuildOutputForward(arr, exp, i, count, output) ==
  IF i <= Len(arr) /\ output # <<>>
    THEN IF ValidDigit(arr[i], exp)
           THEN LET digit == Digit(arr[i], exp)
                IN  BuildOutputForward(arr, exp, i + 1, [count EXCEPT ![digit] = @ - 1],
                                       [output EXCEPT ![count[digit]] = arr[i]])
           ELSE BuildOutputForward(arr, exp, i + 1, count, output)
    ELSE output

countingSortForward(arr, exp) ==
  BuildOutputForward(arr, exp, 1, Cumulative(arr, exp),
                     [i \in 1..Len(arr) |-> UndefinedValue])

\* new Array(n) reads as undefined wherever the build loop wrote nothing
countingSort(arr, exp) ==
  BuildOutput(arr, exp, Len(arr), Cumulative(arr, exp),
              [i \in 1..Len(arr) |-> UndefinedValue])

RECURSIVE SeqMax(_)
SeqMax(s) == IF Len(s) = 1 THEN s[1] ELSE Max2(s[1], SeqMax(Tail(s)))

RECURSIVE SeqMin(_)
SeqMin(s) == IF Len(s) = 1 THEN s[1] ELSE Min2(s[1], SeqMin(Tail(s)))

\* for (let exp = 1; Math.floor(max / exp) > 0; exp *= 10) countingSort(result, exp)
RECURSIVE RadixLoop(_, _, _)
RadixLoop(arr, max, exp) ==
  IF (max \div exp) > 0 THEN RadixLoop(countingSort(arr, exp), max, exp * 10) ELSE arr

radixSort(arr) ==
  IF Len(arr) <= 1 THEN Nums(arr) ELSE RadixLoop(Nums(arr), SeqMax(arr), 1)

InitRadix ==
  /\ \/ \E n \in 0..MaxRadixLen : \E xs \in [1..n -> RadixValues] :
          call = [fn |-> "radixSort", arr |-> xs]
     \/ call = [fn |-> "radixSort", arr |-> RadixExample]
  /\ frame = NoFrame
  /\ outcome = Pending

RadixSort ==
  /\ call.fn = "radixSort"
  /\ outcome.status = "pending"
  /\ outcome' = Returned(radixSort(call.arr))
  /\ UNCHANGED <<call, frame>>

NextRadix == RadixSort

SpecRadix == InitRadix /\ [][NextRadix]_vars

\* v holds numbers only, the numbers of arr, in ascending order
AscendingPermutation(v, arr) ==
  /\ Len(v) = Len(arr)
  /\ \A i \in 1..Len(v) : v[i] # UndefinedValue
  /\ SameElements(v, Nums(arr))
  /\ \A i, j \in 1..Len(v) : i < j => v[i].num <= v[j].num

\* C5: for every list of non-negative integers (lists of zeros included) radixSort
\* returns an ascending permutation of its input, and
\* radixSort([170,45,75,90,802,24,2,66]) = [2,24,45,66,75,90,170,802].
RadixSortsNonNegative ==
  (call.fn = "radixSort" /\ outcome.status # "pending"
     /\ \A i \in 1..Len(call.arr) : call.arr[i] >= 0)
    => /\ outcome.status = "returned"
       /\ AscendingPermutation(outcome.value, call.arr)
       /\ call.arr = RadixExample
            => outcome.value = Nums(<<2, 24, 45, 66, 75, 90, 170, 802>>)

\* a list whose order by last digit differs from its order by value was sorted
\* in more than one pass
RadixSortManyPasses ==
  /\ call.fn = "radixSort"
  /\ outcome.status = "returned"
  /\ Len(call.arr) = 3
  /\ \A i \in 1..Len(call.arr) : call.arr[i] >= 0
  /\ call.arr[1] >= 100 /\ call.arr[1] % 10 < call.arr[2] % 10
  /\ call.arr[2] < call.arr[3] /\ call.arr[3] < 100
  /\ outcome.value # Nums(call.arr)

\* C6: radixSort called with two or more integers of which one is negative fails
\* or rejects the input; it never returns normally with a list that is not the
\* ascending permutation of the input.
RadixRejectsNegative ==
  (call.fn = "radixSort" /\ outcome.status = "returned" /\ Len(call.arr) >= 2
     /\ \E i \in 1..Len(call.arr) : call.arr[i] < 0)
    => AscendingPermutation(outcome.value, call.arr)

\* a list of positive and negative numbers went through a counting pass
RadixSortedNegative ==
  /\ call.fn = "radixSort"
  /\ outcome.status = "returned"
  /\ \E i, j \in 1..Len(call.arr) : call.arr[i] < 0 /\ call.arr[j] > 0

(***************************************************************************)
(* AdvancedSortingEngine.bucketSort                                        *)
(*                                                                         *)
(* bucketSize = (max - min) / bucketCount is kept as the pair of its       *)
(* numerator and denominator, so the quotient (grade - min) / bucketSize   *)
(* is exact.                                                               *)
(***************************************************************************)
MaxBucketLen == 3

MaxGrade == 3

MaxBuckets == 3

\* bucketCount: number = 10
DefaultBucketCount == 10

BucketCounts == 1..MaxBuckets \cup {DefaultBucketCount}

BucketExample == [grades |-> <<5, 1, 4, 2, 8>>, bucketCount |-> 5]

\* (grade - min) / bucketSize is 0 / 0 = NaN when max = min; Math.floor and
\* Math.min keep the NaN
IsNaNIndex(grade, min, max) == max = min /\ grade = min

\* Math.min(Math.floor((grade - min) / bucketSize), bucketCount - 1), 0-based
bucketIndex(grade, min, max, bucketCount) ==
  Min2(((grade - min) * bucketCount) \div (max - min), bucketCount - 1)

\* grades.forEach(grade => buckets[bucketIndex].push(grade)): bucket b, in push order
RECURSIVE Bucket(_, _, _, _, _)
Bucket(grades, b, min, max, bucketCount) ==
  IF grades = <<>> THEN <<>>
  ELSE (IF bucketIndex(Head(grades), min, max, bucketCount) = b
          THEN <<Head(grades)>> ELSE <<>>)
         \o Bucket(Tail(grades), b, min, max, bucketCount)

\* bucket.sort((a, b) => a - b): the built-in sort, here by insertion
RECURSIVE SortNumbers(_)
SortNumbers(s) ==
  IF s = <<>> THEN <<>>
  ELSE LET rest == SortNumbers(Tail(s))
           smaller == Cardinality({i \in 1..Len(rest) : rest[i] < Head(s)})
       IN  SubSeq(rest, 1, smaller) \o <<Head(s)>> \o SubSeq(rest, smaller + 1, Len(rest))

\* buckets.reduce(...): the sorted buckets, concatenated in bucket order
RECURSIVE ConcatBuckets(_, _, _, _, _)
ConcatBuckets(grades, b, min, max, bucketCount) ==
  IF b >= bucketCount THEN <<>>
  ELSE SortNumbers(Bucket(grades, b, min, max, bucketCount))
         \o ConcatBuckets(grades, b + 1, min, max, bucketCount)

\* buckets[NaN] is undefined, so buckets[bucketIndex].push(grade) raises a TypeError
bucketSort(grades, bucketCount) ==
  IF Len(grades) <= 1 THEN Returned(grades)
  ELSE LET min == SeqMin(grades)
           max == SeqMax(grades)
       IN  IF \E i \in 1..Len(grades) : IsNaNIndex(grades[i], min, max)
             THEN Threw("TypeError")
             ELSE Returned(ConcatBuckets(grades, 0, min, max, bucketCount))

InitBucket ==
  /\ \/ \E n \in 0..MaxBucketLen : \E gs \in [1..n -> 0..MaxGrade] : \E bc \in BucketCounts :
          call = [fn |-> "bucketSort", grades |-> gs, bucketCount |-> bc]
     \/ call = [fn |-> "bucketSort", grades |-> BucketExample.grades,
                bucketCount |-> BucketExample.bucketCount]
  /\ frame = NoFrame
  /\ outcome = Pending

BucketSort ==
  /\ call.fn = "bucketSort"
  /\ outcome.status = "pending"
  /\ outcome' = bucketSort(call.grades, call.bucketCount)
  /\ UNCHANGED <<call, frame>>

NextBucket == BucketSort

SpecBucket == InitBucket /\ [][NextBucket]_vars

\* v holds the numbers of s, in ascending order
AscendingNumbers(v, s) ==
  /\ SameElements(v, s)
  /\ \A i, j \in 1..Len(v) : i < j => v[i] <= v[j]

\* C4: for every list of numbers (duplicates allowed, lists of two or more values
\* with min = max included) and every bucketCount >= 1, bucketSort returns without
\* error an ascending permutation of its input; bucketSort([5,1,4,2,8], 5) =
\* [1,2,4,5,8].
BucketSortSorts ==
  (call.fn = "bucketSort" /\ outcome.status # "pending")
    => /\ outcome.status = "returned"
       /\ AscendingNumbers(outcome.value, call.grades)
       /\ (call.grades = BucketExample.grades /\ call.bucketCount = BucketExample.bucketCount)
            => outcome.value = <<1, 2, 4, 5, 8>>

\* a list of two or more equal grades was handed to bucketSort
BucketSortEqualGrades ==
  /\ call.fn = "bucketSort"
  /\ outcome.status # "pending"
  /\ Len(call.grades) >= 2
  /\ SeqMin(call.grades) = SeqMax(call.grades)

(***************************************************************************)
(* AdvancedSearchEngine.boyerMooreSearch, one action per iteration of the  *)
(* outer while loop.  A string is the sequence of its characters; shift, j *)
(* and the offsets in positions are 0-based as in the source.              *)
(***************************************************************************)
MaxTextLen == 4

MaxPatternLen == 2

\* the loop of an empty pattern never ends: the model follows it this far
MaxPositions == 6

Chars == {"a", "b"}

\* text[i] for a 0-based i within the string
CharAt(str, i) == str[i + 1]

\* buildBadCharTable: the last index of each character of the pattern
buildBadCharTable(pattern) ==
  [c \in Range(pattern) |->
     CHOOSE i \in 0..(Len(pattern) - 1) :
       /\ CharAt(pattern, i) = c
       /\ \A k \in 0..(Len(pattern) - 1) : CharAt(pattern, k) = c => k <= i]

\* while (j >= 0 && pattern[j] === text[shift + j]) j--
RECURSIVE MatchDown(_, _, _, _)
MatchDown(text, pattern, shift, j) ==
  IF j >= 0 /\ CharAt(pattern, j) = CharAt(text, shift + j)
    THEN MatchDown(text, pattern, shift, j - 1)
    ELSE j

\* shift + pattern.length < text.length
\*   ? pattern.length - badCharTable.get(text[shift + pattern.length]) || pattern.length
\*   : 1
\* (a - undefined is NaN, and NaN || b is b, as is 0 || b)
MatchShift(text, pattern, shift) ==
  LET table == buildBadCharTable(pattern)
      m == Len(pattern)
  IN  IF shift + m < Len(text)
        THEN LET c == CharAt(text, shift + m)
             IN  IF c \in DOMAIN table /\ m - table[c] # 0 THEN m - table[c] ELSE m
        ELSE 1

\* Math.max(1, j - (badCharTable.get(text[shift + j]) || -1))
\* (undefined || -1 is -1, and so is 0 || -1)
MismatchShift(text, pattern, shift, j) ==
  LET table == buildBadCharTable(pattern)
      c == CharAt(text, shift + j)
      last == IF c \in DOMAIN table /\ table[c] # 0 THEN table[c] ELSE -1
  IN  Max2(1, j - last)

InitBM ==
  /\ \E n \in 0..MaxTextLen : \E text \in [1..n -> Chars] :
       \E m \in 0..MaxPatternLen : \E pattern \in [1..m -> Chars] :
         call = [fn |-> "boyerMooreSearch", text |-> text, pattern |-> pattern]
  /\ frame = [shift |-> 0, positions |-> <<>>]
  /\ outcome = Pending

\* the loop condition: shift <= text.length - pattern.length
BMInLoop ==
  /\ call.fn = "boyerMooreSearch"
  /\ outcome.status = "pending"
  /\ frame.shift <= Len(call.text) - Len(call.pattern)

\* an iteration that finds the pattern at shift (j < 0)
BoyerMooreMatch ==
  /\ BMInLoop
  /\ Len(frame.positions) < MaxPositions
  /\ MatchDown(call.text, call.pattern, frame.shift, Len(call.pattern) - 1) < 0
  /\ frame' = [shift |-> frame.shift + MatchShift(call.text, call.pattern, frame.shift),
               positions |-> Append(frame.positions, frame.shift)]
  /\ UNCHANGED <<call, outcome>>

\* an iteration that stops at a mismatch at pattern index j
BoyerMooreMismatch ==
  /\ BMInLoop
  /\ LET j == MatchDown(call.text, call.pattern, frame.shift, Len(call.pattern) - 1)
     IN  /\ j >= 0
         /\ frame' = [frame EXCEPT
                        !.shift = @ + MismatchShift(call.text, call.pattern, frame.shift, j)]
  /\ UNCHANGED <<call, outcome>>

\* return positions
BoyerMooreReturn ==
  /\ call.fn = "boyerMooreSearch"
  /\ outcome.status = "pending"
  /\ ~(frame.shift <= Len(call.text) - Len(call.pattern))
  /\ outcome' = Returned(frame.positions)
  /\ UNCHANGED <<call, frame>>

NextBM == BoyerMooreMatch \/ BoyerMooreMismatch \/ BoyerMooreReturn

SpecBM == InitBM /\ [][NextBM]_vars

\* the offsets at which pattern stands in text
Occurrences(text, pattern) ==
  {i \in 0..(Len(text) - Len(pattern)) : SubSeq(text, i + 1, i + Len(pattern)) = pattern}

\* C7: for every text and every non-empty pattern, boyerMooreSearch returns
\* exactly the offsets at which the pattern occurs in the text, in ascending
\* order, overlapping occurrences included and none skipped by a mismatch shift.
BoyerMooreFindsAll ==
  (call.fn = "boyerMooreSearch" /\ outcome.status = "returned" /\ call.pattern # <<>>)
    => /\ Range(outcome.value) = Occurrences(call.text, call.pattern)
       /\ \A i, j \in 1..Len(outcome.value) : i < j => outcome.value[i] < outcome.value[j]

\* a search returned for a pattern that occurs in the text after a mismatch
BoyerMooreSearched ==
  /\ call.fn = "boyerMooreSearch"
  /\ outcome.status = "returned"
  /\ call.pattern # <<>>
  /\ Occurrences(call.text, call.pattern) # {}
  /\ 0 \notin Occurrences(call.text, call.pattern)

(***************************************************************************)
(* AdvancedSearchEngine.levenshteinDistance and fuzzySearch                *)
(*                                                                         *)
(* A number that need not be whole (a similarity, a threshold, a weight)   *)
(* is the record [num, den] of a fraction with den > 0, compared by cross  *)
(* multiplication: the arithmetic of the model is exact.                   *)
(***************************************************************************)
MaxFuzzyStudents == 2

Frac(n, d) == [num |-> n, den |-> d]

\* x >= y
FracGeq(x, y) == x.num * y.den >= y.num * x.den

FracEq(x, y) == x.num * y.den = y.num * x.den

\* String.prototype.toLowerCase, character by character
LowerChar(c) == IF c = "A" THEN "a" ELSE IF c = "B" THEN "b" ELSE c

toLowerCase(str) == [i \in 1..Len(str) |-> LowerChar(str[i])]

\* the fixed fields of the Student records the search engine is given
SearchStudent(i, first, last, dept, crs, yr) ==
  [id |-> i, firstName |-> first, lastName |-> last, email |-> <<>>, rollNo |-> <<>>,
   department |-> dept, course |-> crs, year |-> yr]

FirstNames == {<<>>, <<"a">>, <<"A">>, <<"b">>}

LastNames == {<<>>, <<"b">>}

Queries ==
  { <<>>, <<"a">>, <<"A">>, <<"a", "b">>, <<"a", " ", " ", " ">>,
    <<"A", " ", "b", " ", " ">>, <<"b", " ", "b", " ", " ">> }

\* threshold: number = 0.7
DefaultFuzzyThreshold == Frac(7, 10)

FuzzyThresholds == {Frac(0, 1), Frac(1, 4), Frac(1, 2), DefaultFuzzyThreshold, Frac(1, 1)}

\* `${student.firstName} ${student.lastName} ${student.email} ${student.rollNo}`
SearchableText(student) ==
  student.firstName \o <<" ">> \o student.lastName \o <<" ">> \o student.email
    \o <<" ">> \o student.rollNo

\* one row of the matrix: row[i + 1] is matrix[j][i] for i = 0..str1.length
RECURSIVE LevRow(_, _, _, _, _)
LevRow(prev, str1, c2, j, row) ==
  LET i == Len(row)
  IN  IF i > Len(str1) THEN row
      ELSE IF i = 0 THEN LevRow(prev, str1, c2, j, <<j>>)
      ELSE LET indicator == IF str1[i] = c2 THEN 0 ELSE 1
               cell == Min2(Min2(row[i] + 1, prev[i + 1] + 1), prev[i] + indicator)
           IN  LevRow(prev, str1, c2, j, Append(row, cell))

\* one row of a matrix that charges nothing for a substitution
RECURSIVE LevRowFreeSubstitution(_, _, _, _, _)
LevRowFreeSubstitution(prev, str1, c2, j, row) ==
  LET i == Len(row)
  IN  IF i > Len(str1) THEN row
      ELSE IF i = 0 THEN LevRowFreeSubstitution(prev, str1, c2, j, <<j>>)
      ELSE LET cell == Min2(Min2(row[i] + 1, prev[i + 1] + 1), prev[i])
           IN  LevRowFreeSubstitution(prev, str1, c2, j, Append(row, cell))

RECURSIVE LevRowsFreeSubstitution(_, _, _, _)
LevRowsFreeSubstitution(prev, str1, str2, j) ==
  IF j > Len(str2) THEN prev
  ELSE LevRowsFreeSubstitution(LevRowFreeSubstitution(prev, str1, str2[j], j, <<>>),
                               str1, str2, j + 1)

levenshteinFreeSubstitution(str1, str2) ==
  LevRowsFreeSubstitution([i \in 1..(Len(str1) + 1) |-> i - 1], str1, str2, 1)[Len(str1) + 1]

\* for (let j = 1; j <= str2.length; j++) { ... }
RECURSIVE LevRows(_, _, _, _)
LevRows(prev, str1, str2, j) ==
  IF j > Len(str2) THEN prev
  ELSE LevRows(LevRow(prev, str1, str2[j], j, <<>>), str1, str2, j + 1)

\* matrix[0][i] = i; the rows; return matrix[str2.length][str1.length]
levenshteinDistance(str1, str2) ==
  LevRows([i \in 1..(Len(str1) + 1) |-> i - 1], str1, str2, 1)[Len(str1) + 1]

\* the score fuzzySearch gives a student: 1 - distance / maxLength
Similarity(student, query) ==
  LET searchableText == toLowerCase(SearchableText(student))
      queryLower == toLowerCase(query)
      distance == levenshteinDistance(queryLower, searchableText)
      maxLength == Max2(Len(queryLower), Len(searchableText))
  IN  Frac(maxLength - distance, maxLength)

\* students.forEach(... if (similarity >= threshold) results.push({student, score}))
RECURSIVE FuzzyResults(_, _, _)
FuzzyResults(students, query, threshold) ==
  IF students = <<>> THEN <<>>
  ELSE LET score == Similarity(Head(students), query)
       IN  (IF FracGeq(score, threshold)
              THEN <<[student |-> Head(students), score |-> score]>> ELSE <<>>)
             \o FuzzyResults(Tail(students), query, threshold)

\* results.sort((a, b) => b.score - a.score): Array.prototype.sort is stable, so
\* a result goes behind every result whose score is not smaller than its own
RECURSIVE SortByScore(_)
SortByScore(results) ==
  IF results = <<>> THEN <<>>
  ELSE LET n == Len(results)
           x == results[n]
           rest == SortByScore(SubSeq(results, 1, n - 1))
           ahead == Cardinality({i \in 1..Len(rest) : FracGeq(rest[i].score, x.score)})
       IN  SubSeq(rest, 1, ahead) \o <<x>> \o SubSeq(rest, ahead + 1, Len(rest))

fuzzySearch(students, query, threshold) ==
  LET sorted == SortByScore(FuzzyResults(students, query, threshold))
  IN  [i \in 1..Len(sorted) |-> sorted[i].student]

InitFuzzy ==
  /\ \E n \in 0..MaxFuzzyStudents : \E fs \in [1..n -> FirstNames] : \E ls \in [1..n -> LastNames] :
       \E q \in Queries : \E t \in FuzzyThresholds :
         call = [fn |-> "fuzzySearch",
                 students |-> [i \in 1..n |-> SearchStudent(i, fs[i], ls[i], <<>>, <<>>, 1)],
                 query |-> q, threshold |-> t]
  /\ frame = NoFrame
  /\ outcome = Pending

FuzzySearch ==
  /\ call.fn = "fuzzySearch"
  /\ outcome.status = "pending"
  /\ outcome' = Returned(fuzzySearch(call.students, call.query, call.threshold))
  /\ UNCHANGED <<call, frame>>

NextFuzzy == FuzzySearch

SpecFuzzy == InitFuzzy /\ [][NextFuzzy]_vars

(***************************************************************************)
(* The edit distance stated without the matrix: an alignment of q and t    *)
(* maps each position of q to 0 (the character is deleted) or to a         *)
(* position of t (it is kept or substituted), in increasing order; the     *)
(* positions of t it does not reach are inserted.                          *)
(***************************************************************************)
Alignments(q, t) ==
  {f \in [1..Len(q) -> 0..Len(t)] :
     \A i, k \in 1..Len(q) : (i < k /\ f[i] # 0 /\ f[k] # 0) => f[i] < f[k]}

AlignmentCost(q, t, f) ==
  LET kept == {i \in 1..Len(q) : f[i] # 0}
  IN  (Len(q) - Cardinality(kept)) + (Len(t) - Cardinality(kept))
        + Cardinality({i \in kept : q[i] # t[f[i]]})

MinEdits(q, t) ==
  LET costs == {AlignmentCost(q, t, f) : f \in Alignments(q, t)}
  IN  CHOOSE d \in costs : \A e \in costs : d <= e

LowerTexts ==
  {toLowerCase(SearchableText(SearchStudent(1, f, l, <<>>, <<>>, 1))) :
     f \in FirstNames, l \in LastNames}

\* the distances of the queries and texts at hand, worked out once
MinEditsTable ==
  {<<q, t, MinEdits(q, t)>> : q \in {toLowerCase(x) : x \in Queries}, t \in LowerTexts}

MinEditsOf(q, t) == (CHOOSE e \in MinEditsTable : e[1] = q /\ e[2] = t)[3]

\* 1 - d / max(|q|, |t|) of a record, d the minimum number of edits
ExactSimilarity(student, query) ==
  LET t == toLowerCase(SearchableText(student))
      q == toLowerCase(query)
      m == Max2(Len(q), Len(t))
  IN  Frac(m - MinEditsOf(q, t), m)

FuzzySearchEmptyIsEmpty ==
  (call.fn = "fuzzySearch" /\ outcome.status # "pending"
     /\ (call.query = <<>> \/ call.students = <<>>))
    => /\ outcome.status = "returned"
       /\ outcome.value = <<>>

\* a search with the empty query over a non-empty collection has returned
FuzzySearchEmptyQuery ==
  /\ call.fn = "fuzzySearch"
  /\ outcome.status = "returned"
  /\ call.query = <<>>
  /\ call.students # <<>>

-----------------------------------------------------------------------------
\* advancedSearch: weighted multi-field filter (AdvancedSearchEngine)

MaxAdvStudents == 2

\* An optional property: <<>> when it is undefined, <<v>> when it holds v.
Undefined == <<>>

Some(v) == <<v>>

\* Truthiness of an optional string: undefined and "" are falsy.
StringTruthy(opt) == opt # Undefined /\ opt[1] # <<>>

\* Truthiness of an optional number: undefined and 0 are falsy.
NumberTruthy(opt) == opt # Undefined /\ opt[1].num # 0

\* opt || dflt on an optional number
OrDefault(opt, dflt) == IF NumberTruthy(opt) THEN opt[1] ELSE dflt

FracAdd(x, y) == Frac(x.num * y.den + y.num * x.den, x.den * y.den)

FracMul(x, y) == Frac(x.num * y.num, x.den * y.den)

FracZero == Frac(0, 1)

FracOne == Frac(1, 1)

NameMatchThreshold == Frac(6, 10)

DefaultAdvThreshold == Frac(1, 2)

\* String.prototype.includes
Includes(str, sub) ==
  \E i \in 0..(Len(str) - Len(sub)) : SubSeq(str, i + 1, i + Len(sub)) = sub

AdvFirstNames == {<<"a">>, <<"b", "b", "b", "b">>}

Departments == {<<"c">>, <<"e">>}

NameCriteria == {Undefined, Some(<<"a", " ", " ", " ">>)}

DepartmentCriteria == {Undefined, Some(<<"C">>)}

CourseCriteria == {Undefined, Some(<<"x">>)}

YearRanges == {Undefined, Some([min |-> 1, max |-> 1]), Some([min |-> 2, max |-> 3])}

OptionalWeights == {Undefined, Some(FracZero), Some(Frac(1, 2))}

OptionalThresholds == {Undefined, Some(FracZero), Some(Frac(3, 4))}

\* The weights a caller configures for a criterion it sets; none for one it leaves out.
WeightsFor(criterion) == IF criterion = Undefined THEN {Undefined} ELSE OptionalWeights

nameMatch(student, criteria) ==
  fuzzySearch(<<student>>, criteria.name[1], NameMatchThreshold) # <<>>

deptMatch(student, criteria) ==
  Includes(toLowerCase(student.department), toLowerCase(criteria.department[1]))

courseMatch(student, criteria) ==
  Includes(toLowerCase(student.course), toLowerCase(criteria.course[1]))

yearMatch(student, criteria) ==
  student.year >= criteria.yearRange[1].min /\ student.year <= criteria.yearRange[1].max

\* One "if (criteria.x) { score += ...; totalWeight += ...; }" block.
AddCriterion(acc, enabled, matched, weight) ==
  IF enabled
    THEN [score |-> FracAdd(acc.score, IF matched THEN OrDefault(weight, FracOne) ELSE FracZero),
          totalWeight |-> FracAdd(acc.totalWeight, OrDefault(weight, FracOne))]
    ELSE acc

AdvScore(student, criteria) ==
  LET a0 == [score |-> FracZero, totalWeight |-> FracZero]
      a1 == AddCriterion(a0, StringTruthy(criteria.name),
                         StringTruthy(criteria.name) /\ nameMatch(student, criteria),
                         criteria.weights.name)
      a2 == AddCriterion(a1, StringTruthy(criteria.department),
                         StringTruthy(criteria.department) /\ deptMatch(student, criteria),
                         criteria.weights.department)
      a3 == AddCriterion(a2, StringTruthy(criteria.course),
                         StringTruthy(criteria.course) /\ courseMatch(student, criteria),
                         criteria.weights.course)
  IN  AddCriterion(a3, criteria.yearRange # Undefined,
                   criteria.yearRange # Undefined /\ yearMatch(student, criteria),
                   criteria.weights.year)

\* totalWeight > 0 ? (score / totalWeight) >= (criteria.threshold || 0.5) : false
AdvKeeps(student, criteria) ==
  LET acc == AdvScore(student, criteria)
  IN  /\ acc.totalWeight.num > 0
      /\ FracGeq(acc.score, FracMul(OrDefault(criteria.threshold, DefaultAdvThreshold),
                                    acc.totalWeight))

advancedSearch(students, criteria) ==
  LET Keeps(student) == AdvKeeps(student, criteria)
  IN  SelectSeq(students, Keeps)

InitAdv ==
  /\ \E n \in 0..MaxAdvStudents : \E fs \in [1..n -> AdvFirstNames] : \E ds \in [1..n -> Departments] :
       \E nm \in NameCriteria : \E dp \in DepartmentCriteria : \E cr \in CourseCriteria :
         \E yr \in YearRanges : \E th \in OptionalThresholds :
           \E wn \in WeightsFor(nm) : \E wd \in WeightsFor(dp) :
             \E wc \in WeightsFor(cr) : \E wy \in WeightsFor(yr) :
               call = [fn |-> "advancedSearch",
                       students |-> [i \in 1..n |->
                                       SearchStudent(i, fs[i], <<>>, ds[i], <<"x">>, 1)],
                       criteria |-> [name |-> nm, department |-> dp, course |-> cr,
                                     yearRange |-> yr, threshold |-> th,
                                     weights |-> [name |-> wn, department |-> wd,
                                                  course |-> wc, year |-> wy]]]
  /\ frame = NoFrame
  /\ outcome = Pending

AdvancedSearch ==
  /\ call.fn = "advancedSearch"
  /\ outcome.status = "pending"
  /\ outcome' = Returned(advancedSearch(call.students, call.criteria))
  /\ UNCHANGED <<call, frame>>

NextAdv == AdvancedSearch

SpecAdv == InitAdv /\ [][NextAdv]_vars

\* A configured value taken as given, zero included; dflt only when none is configured.
AsGiven(opt, dflt) == IF opt # Undefined THEN opt[1] ELSE dflt

GivenCriterion(acc, enabled, matched, weight) ==
  IF enabled
    THEN [score |-> FracAdd(acc.score, IF matched THEN AsGiven(weight, FracOne) ELSE FracZero),
          totalWeight |-> FracAdd(acc.totalWeight, AsGiven(weight, FracOne))]
    ELSE acc

GivenScore(student, criteria) ==
  LET a0 == [score |-> FracZero, totalWeight |-> FracZero]
      a1 == GivenCriterion(a0, StringTruthy(criteria.name),
                           StringTruthy(criteria.name) /\ nameMatch(student, criteria),
                           criteria.weights.name)
      a2 == GivenCriterion(a1, StringTruthy(criteria.department),
                           StringTruthy(criteria.department) /\ deptMatch(student, criteria),
                           criteria.weights.department)
      a3 == GivenCriterion(a2, StringTruthy(criteria.course),
                           StringTruthy(criteria.course) /\ courseMatch(student, criteria),
                           criteria.weights.course)
  IN  GivenCriterion(a3, criteria.yearRange # Undefined,
                     criteria.yearRange # Undefined /\ yearMatch(student, criteria),
                     criteria.weights.year)

GivenKeeps(student, criteria) ==
  LET acc == GivenScore(student, criteria)
  IN  /\ acc.totalWeight.num > 0
      /\ FracGeq(acc.score, FracMul(AsGiven(criteria.threshold, DefaultAdvThreshold),
                                    acc.totalWeight))

GivenSelection(students, criteria) ==
  LET Keeps(student) == GivenKeeps(student, criteria)
  IN  SelectSeq(students, Keeps)

\* C10: advancedSearch returns, in input order, exactly the students whose
\* matched weight divided by the total weight of the enabled criteria reaches the
\* threshold, where a configured weight or threshold is used as given (0
\* included), an unconfigured weight is 1 and an unconfigured threshold is 0.5.
\* Stated for criteria whose total weight, so counted, is positive.
AdvancedSearchUsesConfiguredValues ==
  (/\ call.fn = "advancedSearch"
   /\ outcome.status # "pending"
   /\ \A i \in 1..Len(call.students) :
        GivenScore(call.students[i], call.criteria).totalWeight.num > 0) =>
    outcome = Returned(GivenSelection(call.students, call.criteria))

\* A search with two enabled criteria, one of them configured with weight 0,
\* over a non-empty collection has returned.
AdvancedSearchZeroWeight ==
  /\ call.fn = "advancedSearch"
  /\ outcome.status = "returned"
  /\ call.students # <<>>
  /\ StringTruthy(call.criteria.department)
  /\ call.criteria.weights.department = Some(FracZero)
  /\ StringTruthy(call.criteria.course)
  /\ call.criteria.weights.course # Undefined

\* The total weight of the enabled criteria, each configured weight as given.
GivenTotalWeight(criteria) ==
  LET a0 == [score |-> FracZero, totalWeight |-> FracZero]
      a1 == GivenCriterion(a0, StringTruthy(criteria.name), FALSE, criteria.weights.name)
      a2 == GivenCriterion(a1, StringTruthy(criteria.department), FALSE,
                           criteria.weights.department)
      a3 == GivenCriterion(a2, StringTruthy(criteria.course), FALSE, criteria.weights.course)
  IN  GivenCriterion(a3, criteria.yearRange # Undefined, FALSE,
                     criteria.weights.year).totalWeight

\* C11: advancedSearch returns no record when the total weight of the enabled
\* criteria is 0: when no criterion is enabled, or when every enabled criterion
\* has configured weight 0.
AdvancedSearchZeroTotalIsEmpty ==
  (/\ call.fn = "advancedSearch"
   /\ outcome.status # "pending"
   /\ GivenTotalWeight(call.criteria).num = 0) =>
    outcome = Returned(<<>>)

\* A search over a non-empty collection whose only enabled criterion is
\* configured with weight 0 has returned.
AdvancedSearchAllWeightsZero ==
  /\ call.fn = "advancedSearch"
  /\ outcome.status = "returned"
  /\ call.students # <<>>
  /\ call.criteria.yearRange # Undefined
  /\ call.criteria.weights.year = Some(FracZero)
  /\ GivenTotalWeight(call.criteria).num = 0

-----------------------------------------------------------------------------
\* kMeansClustering (AdvancedAnalyticsEngine)

MaxKMeansStudents == 2

MaxK == 2

MaxIterations == 2

FeatureLists == {<<>>, <<"year">>, <<"year", "semester">>, <<"address">>}

\* The values Math.random() takes here
RandomUnits == {Frac(0, 1), Frac(1, 2)}

Whole(n) == Frac(n, 1)

FracSub(x, y) == Frac(x.num * y.den - y.num * x.den, x.den * y.den)

\* x < y
FracLess(x, y) == x.num * y.den < y.num * x.den

\* a number field is returned as it is, an object field (address) gives 0
extractNumericFeature(student, feature) ==
  IF feature = "year" THEN Whole(student.year)
  ELSE IF feature = "semester" THEN Whole(student.semester)
  ELSE FracZero

ExtractPoints(students, features) ==
  [i \in 1..Len(students) |->
     [d \in 1..Len(features) |-> extractNumericFeature(students[i], features[d])]]

\* A JavaScript array with holes: its length and the elements that exist.
SparseArray(n) == [length |-> n, elems |-> <<>>]

DenseArray(s) == [length |-> Len(s), elems |-> s]

arraysEqual(a, b) ==
  /\ a.length = b.length
  /\ \A index \in DOMAIN a.elems : index \in DOMAIN b.elems /\ a.elems[index] = b.elems[index]

RECURSIVE FracSeqMin(_)
FracSeqMin(s) ==
  IF Len(s) = 1 THEN s[1]
  ELSE LET rest == FracSeqMin(Tail(s)) IN IF FracLess(rest, s[1]) THEN rest ELSE s[1]

RECURSIVE FracSeqMax(_)
FracSeqMax(s) ==
  IF Len(s) = 1 THEN s[1]
  ELSE LET rest == FracSeqMax(Tail(s)) IN IF FracLess(s[1], rest) THEN rest ELSE s[1]

\* Math.random() * (max - min) + min, for the random value r
initializeCentroids(points, k, r) ==
  [i \in 1..k |->
     [d \in 1..Len(points[1]) |->
        LET values == [p \in 1..Len(points) |-> points[p][d]]
            min == FracSeqMin(values)
            max == FracSeqMax(values)
        IN  FracAdd(FracMul(r[i][d], FracSub(max, min)), min)]]

\* The square of euclideanDistance; distances are compared through their squares.
RECURSIVE SquaredDistance(_, _, _)
SquaredDistance(point1, point2, d) ==
  IF d > Len(point1) THEN FracZero
  ELSE LET diff == FracSub(point1[d], point2[d])
       IN  FracAdd(FracMul(diff, diff), SquaredDistance(point1, point2, d + 1))

\* centroids.forEach: the first centroid at the least distance; cluster indexes from 0
RECURSIVE NearestFrom(_, _, _, _, _)
NearestFrom(point, centroids, index, nearestIndex, haveMin) ==
  IF index > Len(centroids) THEN nearestIndex
  ELSE IF \/ ~haveMin
          \/ FracLess(SquaredDistance(point, centroids[index], 1),
                      SquaredDistance(point, centroids[nearestIndex + 1], 1))
         THEN NearestFrom(point, centroids, index + 1, index - 1, TRUE)
         ELSE NearestFrom(point, centroids, index + 1, nearestIndex, haveMin)

findNearestCentroid(point, centroids) == NearestFrom(point, centroids, 1, 0, FALSE)

RECURSIVE FracSum(_, _, _)
FracSum(points, members, d) ==
  IF members = <<>> THEN FracZero
  ELSE FracAdd(points[Head(members)][d], FracSum(points, Tail(members), d))

updateCentroids(points, assignments, k) ==
  [c \in 1..k |->
     LET InCluster(index) == assignments.elems[index] = c - 1
         clusterPoints == SelectSeq([i \in 1..Len(points) |-> i], InCluster)
     IN  [d \in 1..Len(points[1]) |->
            IF clusterPoints = <<>> THEN FracZero
            ELSE FracMul(FracSum(points, clusterPoints, d), Frac(1, Len(clusterPoints)))]]

calculateInertia(points, centroids, assignments) ==
  LET RECURSIVE Total(_)
      Total(index) ==
        IF index > Len(points) THEN FracZero
        ELSE FracAdd(IF index \in DOMAIN assignments.elems
                       THEN SquaredDistance(points[index],
                                            centroids[assignments.elems[index] + 1], 1)
                       ELSE FracZero,
                     Total(index + 1))
  IN  Total(1)

\* centroids[undefined] is undefined, and reading a coordinate of it is a TypeError
InertiaThrows(points, assignments) ==
  \E index \in 1..Len(points) :
    index \notin DOMAIN assignments.elems /\ Len(points[index]) > 0

\* clusters[clusterIndex].push(studentIndex), for the elements that exist
GroupByCluster(students, assignments, k) ==
  [c \in 1..k |->
     LET InCluster(student) ==
           student.id \in DOMAIN assignments.elems /\ assignments.elems[student.id] = c - 1
     IN  SelectSeq(students, InCluster)]

InitKMeans ==
  /\ \E n \in 0..MaxKMeansStudents : \E ys \in [1..n -> Years] : \E ss \in [1..n -> Semesters] :
       \E k \in 1..MaxK : \E features \in FeatureLists : \E maxIterations \in 1..MaxIterations :
         call = [fn |-> "kMeansClustering", students |-> StudentArray(n, ys, ss), k |-> k,
                 features |-> features, maxIterations |-> maxIterations]
  /\ frame = NoFrame
  /\ outcome = Pending

\* points, initializeCentroids, and the empty assignments array
KMeansStart ==
  /\ call.fn = "kMeansClustering"
  /\ outcome.status = "pending"
  /\ frame = NoFrame
  /\ LET points == ExtractPoints(call.students, call.features)
     IN  IF points = <<>>
           THEN /\ outcome' = Threw("TypeError")
                /\ UNCHANGED <<call, frame>>
           ELSE /\ \E r \in [1..call.k -> [1..Len(call.features) -> RandomUnits]] :
                     frame' = [points |-> points,
                               centroids |-> initializeCentroids(points, call.k, r),
                               assignments |-> SparseArray(Len(points)),
                               iteration |-> 0, looping |-> TRUE]
                /\ UNCHANGED <<call, outcome>>

KMeansLooping ==
  /\ call.fn = "kMeansClustering"
  /\ outcome.status = "pending"
  /\ frame # NoFrame

\* One pass of the for loop: assign, test for convergence, update the centroids.
KMeansIterate ==
  /\ KMeansLooping
  /\ frame.looping
  /\ frame.iteration < call.maxIterations
  /\ LET newAssignments ==
           DenseArray([i \in 1..Len(frame.points) |->
                         findNearestCentroid(frame.points[i], frame.centroids)])
     IN  IF arraysEqual(frame.assignments, newAssignments)
           THEN frame' = [frame EXCEPT !.looping = FALSE]
           ELSE frame' = [frame EXCEPT
                            !.assignments = newAssignments,
                            !.centroids = updateCentroids(frame.points, newAssignments, call.k),
                            !.iteration = @ + 1]
  /\ UNCHANGED <<call, outcome>>

\* After the loop: group the students, compute the inertia, return.
KMeansReturn ==
  /\ KMeansLooping
  /\ ~frame.looping \/ frame.iteration >= call.maxIterations
  /\ outcome' =
       IF InertiaThrows(frame.points, frame.assignments)
         THEN Threw("TypeError")
         ELSE Returned([clusters |-> GroupByCluster(call.students, frame.assignments, call.k),
                        centroids |-> frame.centroids,
                        assignments |-> frame.assignments,
                        inertia |-> calculateInertia(frame.points, frame.centroids,
                                                     frame.assignments)])
  /\ UNCHANGED <<call, frame>>

NextKMeans == KMeansStart \/ KMeansIterate \/ KMeansReturn

SpecKMeans == InitKMeans /\ [][NextKMeans]_vars

\* C12: for a non-empty record list, k >= 1, a non-empty feature list and
\* maxIterations >= 1, kMeansClustering returns without error exactly k
\* centroids and an assignments array with one entry per record, each a cluster
\* index in 0..k-1, and the k clusters partition the records with record i in
\* cluster assignments[i]; the early stop never leaves a record unassigned.
KMeansAssignsEveryRecord ==
  (/\ call.fn = "kMeansClustering"
   /\ outcome.status # "pending"
   /\ call.students # <<>>
   /\ call.features # <<>>) =>
    /\ outcome.status = "returned"
    /\ Len(outcome.value.centroids) = call.k
    /\ Len(outcome.value.clusters) = call.k
    /\ outcome.value.assignments.length = Len(call.students)
    /\ \A i \in 1..Len(call.students) :
         /\ i \in DOMAIN outcome.value.assignments.elems
         /\ outcome.value.assignments.elems[i] \in 0..(call.k - 1)
         /\ \A c \in 1..call.k :
              (call.students[i] \in Range(outcome.value.clusters[c]))
                <=> (outcome.value.assignments.elems[i] = c - 1)

\* A run over a non-empty record list with a non-empty feature list has ended
\* after the early stop fired.
KMeansStoppedEarly ==
  /\ call.fn = "kMeansClustering"
  /\ outcome.status # "pending"
  /\ call.students # <<>>
  /\ call.features # <<>>
  /\ frame # NoFrame
  /\ ~frame.looping

\* No pass of the k-means loop reaches the centroid update: the first
\* convergence test already succeeds, so the loop ends in its first pass.
KMeansNeverUpdates ==
  (call.fn = "kMeansClustering" /\ frame # NoFrame) =>
    /\ frame.iteration = 0
    /\ frame.assignments = SparseArray(Len(call.students))

-----------------------------------------------------------------------------
\* dbscanClustering (AdvancedAnalyticsEngine)

MaxDbscanStudents == 3

MaxMinPoints == 2

DefaultMinPoints == 5

DefaultEpsilon == Frac(1, 2)

Epsilons == {DefaultEpsilon, Whole(1)}

MinPointsValues == 1..MaxMinPoints \cup {DefaultMinPoints}

\* euclideanDistance(point, otherPoint) <= epsilon, through the squares (epsilon >= 0)
WithinEpsilon(point, otherPoint, epsilon) ==
  ~FracLess(FracMul(epsilon, epsilon), SquaredDistance(point, otherPoint, 1))

\* Indexes are counted from 1 here: index i is the source's index i - 1.
getNeighbors(points, pointIndex, epsilon) ==
  LET IsNeighbor(index) ==
        index # pointIndex /\ WithinEpsilon(points[pointIndex], points[index], epsilon)
  IN  SelectSeq([i \in 1..Len(points) |-> i], IsNeighbor)

\* for (let i = 0; i < neighbors.length; i++) over the growing neighbors list
RECURSIVE ExpandLoop(_, _, _, _, _, _, _)
ExpandLoop(points, neighbors, i, cluster, visited, epsilon, minPoints) ==
  IF i > Len(neighbors) THEN [cluster |-> cluster, visited |-> visited]
  ELSE LET neighborIndex == neighbors[i]
           unvisited == neighborIndex \notin visited
           neighborNeighbors == getNeighbors(points, neighborIndex, epsilon)
           grown == IF unvisited /\ Len(neighborNeighbors) >= minPoints
                      THEN neighbors \o neighborNeighbors
                      ELSE neighbors
           pushed == IF neighborIndex \in Range(cluster)
                       THEN cluster
                       ELSE Append(cluster, neighborIndex)
       IN  ExpandLoop(points, grown, i + 1, pushed, visited \cup {neighborIndex},
                      epsilon, minPoints)

expandCluster(points, pointIndex, neighbors, visited, epsilon, minPoints) ==
  ExpandLoop(points, neighbors, 1, <<pointIndex>>, visited, epsilon, minPoints)

\* points.forEach((point, index) => ...)
RECURSIVE ScanLoop(_, _, _, _, _, _, _)
ScanLoop(points, index, clusters, visited, noise, epsilon, minPoints) ==
  IF index > Len(points) THEN [clusters |-> clusters, noise |-> noise]
  ELSE IF index \in visited
    THEN ScanLoop(points, index + 1, clusters, visited, noise, epsilon, minPoints)
    ELSE LET neighbors == getNeighbors(points, index, epsilon)
         IN  IF Len(neighbors) < minPoints
               THEN ScanLoop(points, index + 1, clusters, visited \cup {index},
                             Append(noise, index), epsilon, minPoints)
               ELSE LET expanded == expandCluster(points, index, neighbors,
                                                  visited \cup {index}, epsilon, minPoints)
                    IN  ScanLoop(points, index + 1, Append(clusters, expanded.cluster),
                                 expanded.visited, noise, epsilon, minPoints)

dbscanClustering(students, features, epsilon, minPoints) ==
  LET scanned == ScanLoop(ExtractPoints(students, features), 1, <<>>, {}, <<>>,
                          epsilon, minPoints)
  IN  [clusters |-> [c \in 1..Len(scanned.clusters) |->
                       [j \in 1..Len(scanned.clusters[c]) |-> students[scanned.clusters[c][j]]]],
       noise |-> [j \in 1..Len(scanned.noise) |-> students[scanned.noise[j]]],
       clusterCount |-> Len(scanned.clusters)]

InitDbscan ==
  /\ \E n \in 0..MaxDbscanStudents : \E ys \in [1..n -> Years] : \E ss \in [1..n -> Semesters] :
       \E features \in FeatureLists : \E epsilon \in Epsilons : \E minPoints \in MinPointsValues :
         call = [fn |-> "dbscanClustering", students |-> StudentArray(n, ys, ss),
                 features |-> features, epsilon |-> epsilon, minPoints |-> minPoints]
  /\ frame = NoFrame
  /\ outcome = Pending

DbscanClustering ==
  /\ call.fn = "dbscanClustering"
  /\ outcome.status = "pending"
  /\ outcome' = Returned(dbscanClustering(call.students, call.features, call.epsilon,
                                          call.minPoints))
  /\ UNCHANGED <<call, frame>>

NextDbscan == DbscanClustering

SpecDbscan == InitDbscan /\ [][NextDbscan]_vars

\* How many places of the result hold the student
Places(result, student) ==
  Count(result.noise, student)
    + Cardinality({c \in 1..Len(result.clusters) : student \in Range(result.clusters[c])})

\* C14: the result of dbscanClustering is a partition of the records: every
\* record is in exactly one place, one cluster or the noise set; no record is in
\* two clusters, and a record first marked noise that is later reached from a
\* core point is in that cluster and no longer in the noise set.
DbscanPartitions ==
  (call.fn = "dbscanClustering" /\ outcome.status = "returned") =>
    /\ \A i \in 1..Len(call.students) : Places(outcome.value, call.students[i]) = 1
    /\ \A c \in 1..Len(outcome.value.clusters) : \A j, l \in 1..Len(outcome.value.clusters[c]) :
         outcome.value.clusters[c][j] = outcome.value.clusters[c][l] => j = l

\* The scan has returned a cluster holding a record whose index is lower than
\* that of the point the cluster grew from: a record visited before the cluster
\* was opened and reached again from its core point.
DbscanReachedEarlierRecord ==
  /\ call.fn = "dbscanClustering"
  /\ outcome.status = "returned"
  /\ \E c \in 1..Len(outcome.value.clusters) : \E j \in 2..Len(outcome.value.clusters[c]) :
       outcome.value.clusters[c][j].id < outcome.value.clusters[c][1].id

-----------------------------------------------------------------------------
\* calculateStatistics (AdvancedAnalyticsEngine)

MaxStatLen == 4

MaxStatValue == 2

StatValues == (-1)..MaxStatValue

RECURSIVE SumSeq(_)
SumSeq(s) == IF s = <<>> THEN 0 ELSE Head(s) + SumSeq(Tail(s))

RECURSIVE FracSumSeq(_)
FracSumSeq(s) == IF s = <<>> THEN FracZero ELSE FracAdd(Head(s), FracSumSeq(Tail(s)))

\* (sorted[n / 2 - 1] + sorted[n / 2]) without the division by 2
medianNoHalving(sorted) ==
  LET n == Len(sorted)
  IN  IF n % 2 = 0
        THEN Whole(sorted[n \div 2] + sorted[n \div 2 + 1])
        ELSE Whole(sorted[n \div 2 + 1])

\* n % 2 === 0 ? (sorted[n / 2 - 1] + sorted[n / 2]) / 2 : sorted[Math.floor(n / 2)]
median(sorted) ==
  LET n == Len(sorted)
  IN  IF n % 2 = 0
        THEN Frac(sorted[n \div 2] + sorted[n \div 2 + 1], 2)
        ELSE Whole(sorted[n \div 2 + 1])

RECURSIVE GCD(_, _)
GCD(a, b) == IF b = 0 THEN a ELSE GCD(b, a % b)

\* The same number in lowest terms
Reduced(x) ==
  LET g == GCD(IF x.num < 0 THEN -x.num ELSE x.num, x.den)
  IN  Frac(x.num \div g, x.den \div g)

calculatePercentile(sortedArray, percentile) ==
  LET index == Reduced(Frac(percentile * (Len(sortedArray) - 1), 100))
      lower == index.num \div index.den
      upper == IF index.num % index.den = 0 THEN lower ELSE lower + 1
  IN  IF lower = upper
        THEN Whole(sortedArray[lower + 1])
        ELSE Reduced(FracAdd(FracMul(Whole(sortedArray[lower + 1]),
                                     FracSub(Whole(upper), index)),
                             FracMul(Whole(sortedArray[upper + 1]),
                                     FracSub(index, Whole(lower)))))

detectOutliers(sorted, q1, q3, iqr) ==
  LET lowerBound == FracSub(q1, FracMul(Frac(3, 2), iqr))
      upperBound == FracAdd(q3, FracMul(Frac(3, 2), iqr))
      IsOutlier(val) == FracLess(Whole(val), lowerBound) \/ FracLess(upperBound, Whole(val))
  IN  SelectSeq(sorted, IsOutlier)

\* the values of greatest frequency, in the order of their first occurrence
Mode(values) ==
  LET maxFreq == CHOOSE f \in {Count(values, v) : v \in Range(values)} :
                   \A v \in Range(values) : Count(values, v) <= f
      IsMode(i) == Count(values, values[i]) = maxFreq
                     /\ \A j \in 1..(i - 1) : values[j] # values[i]
      firsts == SelectSeq([i \in 1..Len(values) |-> i], IsMode)
  IN  [j \in 1..Len(firsts) |-> values[firsts[j]]]

\* The summary, without standardDeviation, skewness and kurtosis: they are
\* square roots and quotients by them, and no other field reads them.
StatisticalSummary(values) ==
  LET sorted == SortNumbers(values)
      n == Len(values)
      sum == SumSeq(values)
      mean == Frac(sum, n)
      variance == FracMul(FracSumSeq([i \in 1..n |->
                                        LET diff == FracSub(Whole(values[i]), mean)
                                        IN  FracMul(diff, diff)]),
                          Frac(1, n))
      q1 == calculatePercentile(sorted, 25)
      q3 == calculatePercentile(sorted, 75)
      iqr == FracSub(q3, q1)
  IN  [count |-> n, sum |-> sum, mean |-> mean, median |-> median(sorted),
       mode |-> Mode(values), variance |-> variance,
       min |-> sorted[1], max |-> sorted[n], range |-> sorted[n] - sorted[1],
       q1 |-> q1, q3 |-> q3, iqr |-> iqr, outliers |-> detectOutliers(sorted, q1, q3, iqr)]

calculateStatistics(values) ==
  IF Len(values) = 0
    THEN Threw("Error")
    ELSE Returned(StatisticalSummary(values))

InitStat ==
  /\ \E n \in 0..MaxStatLen : \E values \in [1..n -> StatValues] :
       call = [fn |-> "calculateStatistics", values |-> values]
  /\ frame = NoFrame
  /\ outcome = Pending

CalculateStatistics ==
  /\ call.fn = "calculateStatistics"
  /\ outcome.status = "pending"
  /\ outcome' = calculateStatistics(call.values)
  /\ UNCHANGED <<call, frame>>

NextStat == CalculateStatistics

SpecStat == InitStat /\ [][NextStat]_vars

\* C15: calculateStatistics raises an explicit error when values is empty and
\* computes nothing; for every non-empty list it returns a summary whose count
\* is the list length and whose min <= median <= max.
StatisticsEmptyFailsElseBounded ==
  (call.fn = "calculateStatistics" /\ outcome.status # "pending") =>
    IF call.values = <<>>
      THEN outcome = Threw("Error")
      ELSE /\ outcome.status = "returned"
           /\ outcome.value.count = Len(call.values)
           /\ FracGeq(outcome.value.median, Whole(outcome.value.min))
           /\ FracGeq(Whole(outcome.value.max), outcome.value.median)
           /\ \A i \in 1..Len(call.values) :
                outcome.value.min <= call.values[i] /\ call.values[i] <= outcome.value.max

\* A summary of an unsorted list of even length whose median lies strictly
\* between the two middle values has been returned.
StatisticsOfUnsortedList ==
  /\ call.fn = "calculateStatistics"
  /\ outcome.status = "returned"
  /\ Len(call.values) = 4
  /\ call.values # SortNumbers(call.values)
  /\ outcome.value.median.den = 2
  /\ outcome.value.median.num % 2 = 1
  /\ outcome.value.min < outcome.value.max

-----------------------------------------------------------------------------
\* JavaScript numbers with NaN and the infinities (the sign of zero apart), for
\* calculateConfidence (PredictionEngine) and calculateVolatility
\* (AdvancedAnalyticsEngine)

MaxConfRows == 2

MaxSeriesLen == 3

MaxSeriesValue == 2

\* a finite number, in lowest terms
Finite(x) == [kind |-> "finite", val |-> Reduced(x)]

NaN == [kind |-> "NaN", val |-> FracZero]

PlusInfinity == [kind |-> "Infinity", val |-> FracOne]

MinusInfinity == [kind |-> "Infinity", val |-> Frac(-1, 1)]

\* -1, 0 or 1
Sign(a) == IF a.val.num > 0 THEN 1 ELSE IF a.val.num < 0 THEN -1 ELSE 0

SignedInfinity(s) == IF s > 0 THEN PlusInfinity ELSE MinusInfinity

JsNeg(a) ==
  IF a.kind = "NaN" THEN NaN
  ELSE IF a.kind = "Infinity" THEN SignedInfinity(-Sign(a))
  ELSE Finite(Frac(-a.val.num, a.val.den))

JsAdd(a, b) ==
  IF a.kind = "NaN" \/ b.kind = "NaN" THEN NaN
  ELSE IF a.kind = "Infinity" /\ b.kind = "Infinity" THEN (IF a = b THEN a ELSE NaN)
  ELSE IF a.kind = "Infinity" THEN a
  ELSE IF b.kind = "Infinity" THEN b
  ELSE Finite(FracAdd(a.val, b.val))

JsSub(a, b) == JsAdd(a, JsNeg(b))

JsMul(a, b) ==
  IF a.kind = "NaN" \/ b.kind = "NaN" THEN NaN
  ELSE IF a.kind = "Infinity" \/ b.kind = "Infinity"
         THEN (IF Sign(a) * Sign(b) = 0 THEN NaN ELSE SignedInfinity(Sign(a) * Sign(b)))
  ELSE Finite(FracMul(a.val, b.val))

\* a / b; a zero divisor is +0
JsDiv(a, b) ==
  IF a.kind = "NaN" \/ b.kind = "NaN" THEN NaN
  ELSE IF a.kind = "Infinity"
         THEN (IF b.kind = "Infinity" THEN NaN
               ELSE SignedInfinity(Sign(a) * (IF Sign(b) < 0 THEN -1 ELSE 1)))
  ELSE IF b.kind = "Infinity" THEN Finite(FracZero)
  ELSE IF Sign(b) = 0 THEN (IF Sign(a) = 0 THEN NaN ELSE SignedInfinity(Sign(a)))
  ELSE Finite(Frac(a.val.num * b.val.den * Sign(b), a.val.den * b.val.num * Sign(b)))

\* Math.max(a, b)
JsMax(a, b) ==
  IF a.kind = "NaN" \/ b.kind = "NaN" THEN NaN
  ELSE IF a = PlusInfinity \/ b = PlusInfinity THEN PlusInfinity
  ELSE IF a = MinusInfinity THEN b
  ELSE IF b = MinusInfinity THEN a
  ELSE IF FracLess(a.val, b.val) THEN b ELSE a

\* Math.sqrt(a); a root that is not a fraction is kept as the root of its square
JsSqrt(a) ==
  IF a.kind = "NaN" \/ Sign(a) < 0 THEN NaN
  ELSE IF a.kind = "Infinity" THEN PlusInfinity
  ELSE IF \E r \in 0..a.val.num : \E q \in 1..a.val.den : r * r = a.val.num /\ q * q = a.val.den
         THEN Finite(Frac(CHOOSE r \in 0..a.val.num : r * r = a.val.num,
                          CHOOSE q \in 1..a.val.den : q * q = a.val.den))
  ELSE [kind |-> "root", val |-> a.val]

RECURSIVE JsSum(_)
JsSum(s) == IF s = <<>> THEN Finite(FracZero) ELSE JsAdd(JsSum(SubSeq(s, 1, Len(s) - 1)), s[Len(s)])

JsWhole(n) == Finite(Whole(n))

JsSquare(a) == JsMul(a, a)

\* the mean of the squared deviations from the mean
variance(values) ==
  LET mean == JsDiv(JsSum(values), JsWhole(Len(values)))
  IN  JsDiv(JsSum([i \in 1..Len(values) |-> JsSquare(JsSub(values[i], mean))]),
            JsWhole(Len(values)))

\* weights[0] + features.reduce((sum, feature, i) => sum + feature * weights[i + 1], 0)
predict(features, weights) ==
  JsAdd(weights[1], JsSum([i \in 1..Len(features) |-> JsMul(features[i], weights[i + 1])]))

calculateConfidence(X, y, weights) ==
  LET predictions == [r \in 1..Len(X) |-> predict(X[r], weights)]
      mse == JsDiv(JsSum([i \in 1..Len(predictions) |-> JsSquare(JsSub(predictions[i], y[i]))]),
                   JsWhole(Len(y)))
  IN  JsMax(JsWhole(0), JsSub(JsWhole(1), JsDiv(mse, variance(y))))

\* stats.standardDeviation of calculateStatistics(returns)
calculateVolatility(values) ==
  LET returns == [i \in 1..(Len(values) - 1) |->
                    JsDiv(JsSub(values[i + 1], values[i]), values[i])]
  IN  IF Len(returns) = 0
        THEN Threw("Error")
        ELSE Returned(JsSqrt(variance(returns)))

ConfValues == {0, 1}

SeriesValues == 0..MaxSeriesValue

JsWholes(s) == [i \in 1..Len(s) |-> JsWhole(s[i])]

InitDegenerate ==
  /\ \/ \E n \in 1..MaxConfRows : \E xs \in [1..n -> ConfValues] : \E y \in [1..n -> ConfValues] :
          \E weights \in [1..2 -> ConfValues] :
            call = [fn |-> "calculateConfidence", X |-> [r \in 1..n |-> JsWholes(<<xs[r]>>)],
                    y |-> JsWholes(y), weights |-> JsWholes(weights)]
     \/ \E n \in 0..MaxSeriesLen : \E values \in [1..n -> SeriesValues] :
          call = [fn |-> "calculateVolatility", values |-> JsWholes(values)]
  /\ frame = NoFrame
  /\ outcome = Pending

CalculateConfidence ==
  /\ call.fn = "calculateConfidence"
  /\ outcome.status = "pending"
  /\ outcome' = Returned(calculateConfidence(call.X, call.y, call.weights))
  /\ UNCHANGED <<call, frame>>

CalculateVolatility ==
  /\ call.fn = "calculateVolatility"
  /\ outcome.status = "pending"
  /\ outcome' = calculateVolatility(call.values)
  /\ UNCHANGED <<call, frame>>

NextDegenerate == CalculateConfidence \/ CalculateVolatility

SpecDegenerate == InitDegenerate /\ [][NextDegenerate]_vars

\* C16: calculateConfidence returns 0 when all targets are equal (variance 0),
\* and calculateVolatility returns 0 when a relative return would divide by a
\* series value of 0; in neither case is the result NaN or an infinity.
ZeroDivisionGivesZero ==
  /\ (/\ call.fn = "calculateConfidence"
      /\ outcome.status # "pending"
      /\ \A i \in 1..Len(call.y) : call.y[i] = call.y[1]) =>
       outcome = Returned(JsWhole(0))
  /\ (/\ call.fn = "calculateVolatility"
      /\ outcome.status # "pending"
      /\ \E i \in 1..(Len(call.values) - 1) : call.values[i] = JsWhole(0)) =>
       outcome = Returned(JsWhole(0))

\* The confidence of exact predictions of equal targets has been computed.
ConfidenceOfExactFit ==
  /\ call.fn = "calculateConfidence"
  /\ outcome.status = "returned"
  /\ Len(call.y) = MaxConfRows
  /\ \A i \in 1..Len(call.y) : call.y[i] = call.y[1] /\ predict(call.X[i], call.weights) = call.y[i]

-----------------------------------------------------------------------------
\* calculateCorrelationMatrix (AdvancedAnalyticsEngine)

MaxCorrStudents == 3

StrongThreshold == Frac(7, 10)

RECURSIVE SumProducts(_, _)
SumProducts(x, y) ==
  IF x = <<>> THEN 0 ELSE Head(x) * Head(y) + SumProducts(Tail(x), Tail(y))

IsSquare(n) == \E r \in 0..n : r * r = n

SquareRoot(n) == CHOOSE r \in 0..n : r * r = n

\* numerator / Math.sqrt(radicand): a fraction when the root is whole, otherwise
\* the positive or negative root of the fraction numerator^2 / radicand
QuotientByRoot(numerator, radicand) ==
  IF numerator = 0 THEN JsWhole(0)
  ELSE IF IsSquare(radicand) THEN Finite(Frac(numerator, SquareRoot(radicand)))
  ELSE [kind |-> IF numerator > 0 THEN "root" ELSE "-root",
        val |-> Reduced(Frac(numerator * numerator, radicand))]

pearsonCorrelation(x, y) ==
  LET n == Len(x)
      sumX == SumSeq(x)
      sumY == SumSeq(y)
      sumXY == SumProducts(x, y)
      sumX2 == SumProducts(x, x)
      sumY2 == SumProducts(y, y)
      numerator == n * sumXY - sumX * sumY
      radicand == (n * sumX2 - sumX * sumX) * (n * sumY2 - sumY * sumY)
  IN  IF radicand = 0 THEN JsWhole(0) ELSE QuotientByRoot(numerator, radicand)

\* the square of Math.abs(correlation)
AbsSquared(correlation) ==
  IF correlation.kind = "finite" THEN FracMul(correlation.val, correlation.val)
  ELSE correlation.val

\* the pairs (i, j), j > i, row by row
PairsFrom(i, j, count) ==
  LET RECURSIVE Pairs(_, _)
      Pairs(a, b) ==
        IF a > count THEN <<>>
        ELSE IF b > count THEN Pairs(a + 1, a + 2)
        ELSE <<[i |-> a, j |-> b]>> \o Pairs(a, b + 1)
  IN  Pairs(i, j)

\* correlations.sort((a, b) => Math.abs(b.correlation) - Math.abs(a.correlation))
RECURSIVE SortByStrength(_)
SortByStrength(correlations) ==
  IF correlations = <<>> THEN <<>>
  ELSE LET n == Len(correlations)
           x == correlations[n]
           rest == SortByStrength(SubSeq(correlations, 1, n - 1))
           ahead == Cardinality({i \in 1..Len(rest) :
                      FracGeq(AbsSquared(rest[i].correlation), AbsSquared(x.correlation))})
       IN  SubSeq(rest, 1, ahead) \o <<x>> \o SubSeq(rest, ahead + 1, Len(rest))

findStrongCorrelations(matrix, features, threshold) ==
  LET pairs == PairsFrom(1, 2, Len(features))
      IsStrong(p) == FracGeq(AbsSquared(matrix[p.i][p.j]), FracMul(threshold, threshold))
      strong == SelectSeq(pairs, IsStrong)
  IN  SortByStrength([s \in 1..Len(strong) |->
                        [feature1 |-> features[strong[s].i], feature2 |-> features[strong[s].j],
                         correlation |-> matrix[strong[s].i][strong[s].j]]])

calculateCorrelationMatrix(students, features) ==
  LET featureData == [f \in 1..Len(features) |->
                        [s \in 1..Len(students) |->
                           extractNumericFeature(students[s], features[f]).num]]
      matrix == [i \in 1..Len(features) |->
                   [j \in 1..Len(features) |-> pearsonCorrelation(featureData[i], featureData[j])]]
  IN  [matrix |-> matrix, features |-> features,
       strongCorrelations |-> findStrongCorrelations(matrix, features, StrongThreshold)]

CorrFeatureLists ==
  FeatureLists \cup {<<"year", "semester", "address">>, <<"semester", "year", "year">>}

InitCorr ==
  /\ \E n \in 0..MaxCorrStudents : \E ys \in [1..n -> Years] : \E ss \in [1..n -> Semesters] :
       \E features \in CorrFeatureLists :
         call = [fn |-> "calculateCorrelationMatrix", students |-> StudentArray(n, ys, ss),
                 features |-> features]
  /\ frame = NoFrame
  /\ outcome = Pending

CalculateCorrelationMatrix ==
  /\ call.fn = "calculateCorrelationMatrix"
  /\ outcome.status = "pending"
  /\ outcome' = Returned(calculateCorrelationMatrix(call.students, call.features))
  /\ UNCHANGED <<call, frame>>

NextCorr == CalculateCorrelationMatrix

SpecCorr == InitCorr /\ [][NextCorr]_vars

\* C17: for every record list and feature list, the matrix returned by
\* calculateCorrelationMatrix is symmetric and every diagonal entry equals 1,
\* including for a feature whose value is the same for all records.
CorrelationSymmetricUnitDiagonal ==
  (call.fn = "calculateCorrelationMatrix" /\ outcome.status = "returned") =>
    \A i \in 1..Len(call.features) :
      /\ outcome.value.matrix[i][i] = JsWhole(1)
      /\ \A j \in 1..Len(call.features) :
           outcome.value.matrix[i][j] = outcome.value.matrix[j][i]

\* A matrix over two or more records has been returned, for features of which
\* one varies over the records and one is the same for all of them.
CorrelationOfConstantFeature ==
  /\ call.fn = "calculateCorrelationMatrix"
  /\ outcome.status = "returned"
  /\ Len(call.students) >= 2
  /\ \E i, j \in 1..Len(call.features) :
       /\ \A s \in 1..Len(call.students) :
            extractNumericFeature(call.students[s], call.features[i])
              = extractNumericFeature(call.students[1], call.features[i])
       /\ \E s \in 1..Len(call.students) :
            extractNumericFeature(call.students[s], call.features[j])
              # extractNumericFeature(call.students[1], call.features[j])

-----------------------------------------------------------------------------
\* buildDecisionTree (PredictionEngine)

MaxTreeStudents == 4

MaxTreeDepth == 1

DefaultMaxDepth == 10

MaxDepths == 0..MaxTreeDepth \cup {DefaultMaxDepth}

TreeYears == {1, 2}

TreeSemesters == {1, 2}

Statuses == {"active", "inactive"}

TreeStudents(n, ys, ss, sts) ==
  [i \in 1..n |-> [id |-> i, year |-> ys[i], semester |-> ss[i], status |-> sts[i]]]

\* The eight features of a student; a record without credits, attendance,
\* academic history and achievements gives 0 for the last six.
extractFeatures(students) ==
  [i \in 1..Len(students) |->
     <<students[i].year, students[i].semester, 0, 0, 0, 0, 0, 0>>]

RECURSIVE Pow(_, _)
Pow(b, e) == IF e = 0 THEN 1 ELSE b * Pow(b, e - 1)

RECURSIVE Product(_)
Product(s) == IF s = <<>> THEN 1 ELSE Head(s) * Product(Tail(s))

\* the distinct values of s, in the order of their first occurrence (Map keys)
RECURSIVE Distinct(_)
Distinct(s) ==
  IF s = <<>> THEN <<>>
  ELSE LET front == Distinct(SubSeq(s, 1, Len(s) - 1))
       IN  IF s[Len(s)] \in Range(front) THEN front ELSE Append(front, s[Len(s)])

\* The entropy H of the targets, as the number 2^(n * H) = n^n / (c1^c1 * ... * ck^ck)
\* for n targets in classes of c1, ..., ck members: log2 is not a fraction, this is.
calculateEntropy(targets) ==
  LET classes == Distinct(targets)
      counts == [k \in 1..Len(classes) |-> Count(targets, classes[k])]
  IN  Reduced(Frac(Pow(Len(targets), Len(targets)),
                   Product([k \in 1..Len(counts) |-> Pow(counts[k], counts[k])])))

\* row[featureIndex] <= threshold, feature indexes from 1
splitData(features, featureIndex, threshold) ==
  LET IsLeft(index) ==
        FracGeq(threshold, Whole(features[index][featureIndex]))
      IsRight(index) == ~IsLeft(index)
      indexes == [i \in 1..Len(features) |-> i]
  IN  [leftIndices |-> SelectSeq(indexes, IsLeft), rightIndices |-> SelectSeq(indexes, IsRight)]

\* The information gain g of a split of n targets, as the number 2^(n * g):
\* n * g = n * H(targets) - (|left| * H(left) + |right| * H(right)). The gains
\* of the splits of one node compare as these numbers do, g > 0 exactly when the
\* number exceeds 1, and g > -1 always.
calculateInformationGain(features, targets, featureIndex, threshold) ==
  LET split == splitData(features, featureIndex, threshold)
      leftTargets == [j \in 1..Len(split.leftIndices) |-> targets[split.leftIndices[j]]]
      rightTargets == [j \in 1..Len(split.rightIndices) |-> targets[split.rightIndices[j]]]
      weighted == Reduced(FracMul(calculateEntropy(leftTargets), calculateEntropy(rightTargets)))
      total == calculateEntropy(targets)
      common == GCD(total.num, weighted.num)
      shared == GCD(total.den, weighted.den)
  IN  Reduced(Frac((total.num \div common) * (weighted.den \div shared),
                   (total.den \div shared) * (weighted.num \div common)))

\* [...new Set(values)].sort((a, b) => a - b)
uniqueValues(features, featureIndex) ==
  SortNumbers(Distinct([i \in 1..Len(features) |-> features[i][featureIndex]]))

\* the candidate splits, in the order the two loops visit them
CandidateSplits(features) ==
  LET RECURSIVE Candidates(_, _)
      Candidates(featureIndex, i) ==
        IF featureIndex > Len(features[1]) THEN <<>>
        ELSE LET unique == uniqueValues(features, featureIndex)
             IN  IF i > Len(unique) - 1 THEN Candidates(featureIndex + 1, 1)
                 ELSE <<[featureIndex |-> featureIndex,
                         threshold |-> Frac(unique[i] + unique[i + 1], 2)]>>
                        \o Candidates(featureIndex, i + 1)
  IN  Candidates(1, 1)

\* x < y for positive x and y, cancelling common factors before multiplying
GainLess(x, y) ==
  LET common == GCD(x.num, y.num)
      shared == GCD(x.den, y.den)
  IN  (x.num \div common) * (y.den \div shared) < (y.num \div common) * (x.den \div shared)

\* let bestGain = -1: the first candidate is always taken, a later one when its
\* gain is greater; null (Undefined) when there is no candidate
RECURSIVE BestOf(_, _, _, _)
BestOf(candidates, features, targets, bestSplit) ==
  IF candidates = <<>> THEN bestSplit
  ELSE LET c == Head(candidates)
           gain == calculateInformationGain(features, targets, c.featureIndex, c.threshold)
       IN  IF bestSplit = Undefined \/ GainLess(bestSplit[1].gain, gain)
             THEN BestOf(Tail(candidates), features, targets,
                         Some([featureIndex |-> c.featureIndex, threshold |-> c.threshold,
                               gain |-> gain]))
             ELSE BestOf(Tail(candidates), features, targets, bestSplit)

findBestSplit(features, targets) ==
  BestOf(CandidateSplits(features), features, targets, Undefined)

\* new Set(targets).size < 1
isPureOnlyEmpty(targets) == Len(Distinct(targets)) < 1

\* new Set(targets).size <= 1
isPure(targets) == Len(Distinct(targets)) <= 1

\* the first class, in order of first occurrence, of the greatest count;
\* targets[0] (undefined) for no targets
getMajorityClass(targets) ==
  IF targets = <<>> THEN Undefined
  ELSE LET classes == Distinct(targets)
           best == CHOOSE k \in 1..Len(classes) :
                     /\ \A l \in 1..Len(classes) :
                          Count(targets, classes[l]) <= Count(targets, classes[k])
                     /\ \A l \in 1..(k - 1) :
                          Count(targets, classes[l]) < Count(targets, classes[k])
       IN  Some(classes[best])

\* maxCount / targets.length; Math.max() of no counts is -Infinity
calculatePurity(targets) ==
  IF targets = <<>> THEN MinusInfinity
  ELSE LET classes == Distinct(targets)
           maxCount == CHOOSE m \in {Count(targets, classes[k]) : k \in 1..Len(classes)} :
                         \A k \in 1..Len(classes) : Count(targets, classes[k]) <= m
       IN  Finite(Frac(maxCount, Len(targets)))

Leaf(targets) ==
  [isLeaf |-> TRUE, prediction |-> getMajorityClass(targets),
   confidence |-> calculatePurity(targets)]

RECURSIVE buildTree(_, _, _, _)
buildTree(features, targets, depth, maxDepth) ==
  IF depth >= maxDepth \/ isPure(targets) \/ Len(features) = 0 THEN Leaf(targets)
  ELSE LET bestSplit == findBestSplit(features, targets)
       IN  IF bestSplit = Undefined THEN Leaf(targets)
           ELSE LET split == splitData(features, bestSplit[1].featureIndex,
                                       bestSplit[1].threshold)
                    Pick(s, indices) == [j \in 1..Len(indices) |-> s[indices[j]]]
                IN  [isLeaf |-> FALSE,
                     featureIndex |-> bestSplit[1].featureIndex,
                     threshold |-> bestSplit[1].threshold,
                     left |-> buildTree(Pick(features, split.leftIndices),
                                        Pick(targets, split.leftIndices), depth + 1, maxDepth),
                     right |-> buildTree(Pick(features, split.rightIndices),
                                         Pick(targets, split.rightIndices), depth + 1, maxDepth)]

buildDecisionTree(students, targetAttribute, maxDepth) ==
  buildTree(extractFeatures(students),
            [i \in 1..Len(students) |-> students[i][targetAttribute]], 0, maxDepth)

InitTree ==
  /\ \E n \in 0..MaxTreeStudents : \E ys \in [1..n -> TreeYears] :
       \E ss \in [1..n -> TreeSemesters] : \E sts \in [1..n -> Statuses] :
         \E maxDepth \in MaxDepths :
           call = [fn |-> "buildDecisionTree", students |-> TreeStudents(n, ys, ss, sts),
                   targetAttribute |-> "status", maxDepth |-> maxDepth]
  /\ frame = NoFrame
  /\ outcome = Pending

BuildDecisionTree ==
  /\ call.fn = "buildDecisionTree"
  /\ outcome.status = "pending"
  /\ outcome' = Returned(buildDecisionTree(call.students, call.targetAttribute, call.maxDepth))
  /\ UNCHANGED <<call, frame>>

NextTree == BuildDecisionTree

SpecTree == InitTree /\ [][NextTree]_vars

\* Every internal node of the tree, built from the rows and targets that reach
\* it, splits them with an information gain greater than 0.
RECURSIVE SplitsGain(_, _, _)
SplitsGain(tree, features, targets) ==
  tree.isLeaf \/
    LET split == splitData(features, tree.featureIndex, tree.threshold)
        Pick(s, indices) == [j \in 1..Len(indices) |-> s[indices[j]]]
    IN  /\ FracLess(FracOne, calculateInformationGain(features, targets, tree.featureIndex,
                                                      tree.threshold))
        /\ SplitsGain(tree.left, Pick(features, split.leftIndices),
                      Pick(targets, split.leftIndices))
        /\ SplitsGain(tree.right, Pick(features, split.rightIndices),
                      Pick(targets, split.rightIndices))

TreeTargets == [i \in 1..Len(call.students) |-> call.students[i][call.targetAttribute]]

\* C18: buildTree turns a node into a leaf whenever no candidate split of that
\* node has information gain greater than 0: every internal node of a returned
\* tree has a split whose information gain is strictly positive.
TreeSplitsOnlyOnGain ==
  (call.fn = "buildDecisionTree" /\ outcome.status = "returned") =>
    SplitsGain(outcome.value, extractFeatures(call.students), TreeTargets)

\* A tree with an internal node has been returned for targets that no single
\* feature separates at all: each year and each semester holds both classes
\* equally often.
TreeOfUnseparableTargets ==
  /\ call.fn = "buildDecisionTree"
  /\ outcome.status = "returned"
  /\ ~outcome.value.isLeaf
  /\ Len(call.students) = 4
  /\ \A i \in 1..4 : call.students[i].semester = 1
  /\ \A y \in TreeYears : \E i, j \in 1..4 :
       /\ call.students[i].year = y /\ call.students[j].year = y
       /\ call.students[i].status = "active" /\ call.students[j].status = "inactive"

\* C19: for every non-empty training set in which all target values are
\* identical, and every maxDepth >= 0, buildDecisionTree returns a single leaf
\* whose prediction is that target value and whose confidence (purity) is 1.
PureTargetsGiveOneLeaf ==
  (/\ call.fn = "buildDecisionTree"
   /\ outcome.status # "pending"
   /\ call.students # <<>>
   /\ \A i \in 1..Len(TreeTargets) : TreeTargets[i] = TreeTargets[1]) =>
    outcome = Returned([isLeaf |-> TRUE, prediction |-> Some(TreeTargets[1]),
                        confidence |-> JsWhole(1)])

\* A tree has been returned for two or more students of one status whose
\* features differ, with room to split (maxDepth > 0).
TreeOfPureTargets ==
  /\ call.fn = "buildDecisionTree"
  /\ outcome.status = "returned"
  /\ call.maxDepth > 0
  /\ Len(call.students) >= 2
  /\ \A i \in 1..Len(TreeTargets) : TreeTargets[i] = TreeTargets[1]
  /\ \E i \in 1..Len(call.students) : call.students[i].year # call.students[1].year

-----------------------------------------------------------------------------
\* predictWithEnsemble (PredictionEngine), called for one student after another

MaxEnsembleYear == 2

MaxEnsembleCalls == 2

EnsembleYears == 0..MaxEnsembleYear

EnsembleWeights == <<Frac(4, 10), Frac(3, 10), Frac(3, 10)>>

EnsembleConfidence == Frac(85, 100)

featureNames ==
  <<"Year", "Semester", "Credits", "Attendance Count", "Academic History", "Achievements",
    "Attendance Rate", "Average Grade">>

\* student.year || 0 and student.semester || 0: a missing field counts as 0
PartialStudent(y, s) == [year |-> y, semester |-> s]

\* ridge models: the bias and one weight for each of the eight features
RidgeModels ==
  {JsWholes(<<0, 0, 0, 0, 0, 0, 0, 0, 0>>), JsWholes(<<1, 1, -2, 0, 0, 0, 0, 0, 0>>)}

NumberLeaf(prediction) ==
  [isLeaf |-> TRUE, prediction |-> prediction, confidence |-> JsWhole(1)]

\* trees whose predictions are numbers, or undefined
EnsembleTrees ==
  {NumberLeaf(Some(3)), NumberLeaf(Undefined),
   [isLeaf |-> FALSE, featureIndex |-> 1, threshold |-> Frac(3, 2),
    left |-> NumberLeaf(Some(1)), right |-> NumberLeaf(Some(2))]}

\* networks of one layer, the output neuron: sigmoid(x) is kept as the sigmoid
\* of the number x, which a further layer could not take as its input
OutputLayer(weights, bias) ==
  [weights |-> <<JsWholes(weights)>>, biases |-> <<JsWhole(bias)>>,
   activations |-> <<>>, gradients |-> <<>>]

NeuralNetworks ==
  {[layers |-> <<OutputLayer(<<1, 1, 1, 1, 1, 1, 1, 1>>, 0)>>],
   [layers |-> <<OutputLayer(<<1, -1, 0, 0, 0, 0, 0, 0>>, -1)>>]}

\* 1 / (1 + Math.exp(-x))
sigmoid(x) == [kind |-> "sigmoid", val |-> x.val]

\* typeof tree.prediction === 'number' ? tree.prediction : 0
RECURSIVE predictWithTree(_, _)
predictWithTree(tree, features) ==
  IF tree.isLeaf
    THEN (IF tree.prediction # Undefined THEN JsWhole(tree.prediction[1]) ELSE JsWhole(0))
    ELSE IF FracGeq(tree.threshold, features[tree.featureIndex].val)
           THEN predictWithTree(tree.left, features)
           ELSE predictWithTree(tree.right, features)

\* stds[i] === 0 ? 0 : (value - means[i]) / stds[i], stds[i] the root of the variance
NormalizedValue(value, mean, var) ==
  LET diff == FracSub(value, mean)
      ratio == Reduced(Frac(diff.num * diff.num * var.den, diff.den * diff.den * var.num))
  IN  IF var.num = 0 \/ diff.num = 0 THEN JsWhole(0)
      ELSE IF IsSquare(ratio.num) /\ IsSquare(ratio.den)
             THEN Finite(Frac((IF diff.num > 0 THEN 1 ELSE -1) * SquareRoot(ratio.num),
                              SquareRoot(ratio.den)))
      ELSE [kind |-> IF diff.num > 0 THEN "root" ELSE "-root", val |-> ratio]

\* the rows are rows of finite numbers
normalizeFeatures(features) ==
  LET rows == Len(features)
      Column(i) == [r \in 1..rows |-> features[r][i].val]
      Mean(i) == Reduced(FracMul(FracSumSeq(Column(i)), Frac(1, rows)))
      Var(i) == Reduced(FracMul(FracSumSeq([r \in 1..rows |->
                                              LET diff == FracSub(features[r][i].val, Mean(i))
                                              IN  Reduced(FracMul(diff, diff))]),
                                Frac(1, rows)))
  IN  [r \in 1..rows |->
         [i \in 1..Len(features[1]) |-> NormalizedValue(features[r][i].val, Mean(i), Var(i))]]

\* the output of a network of one layer, and the network with its activations set
forwardPass(network, input) ==
  LET layer == network.layers[1]
      output == [i \in 1..Len(layer.weights) |->
                   sigmoid(JsAdd(layer.biases[i],
                                 JsSum([j \in 1..Len(layer.weights[i]) |->
                                          JsMul(layer.weights[i][j], input[j])])))]
  IN  [output |-> output,
       network |-> [layers |-> <<[layer EXCEPT !.activations = output]>>]]

JsAbs(a) == IF Sign(a) < 0 THEN JsNeg(a) ELSE a

\* .sort((a, b) => b.importance - a.importance)
RECURSIVE SortByImportance(_)
SortByImportance(factors) ==
  IF factors = <<>> THEN <<>>
  ELSE LET n == Len(factors)
           x == factors[n]
           rest == SortByImportance(SubSeq(factors, 1, n - 1))
           ahead == Cardinality({i \in 1..Len(rest) :
                      FracGeq(rest[i].importance.val, x.importance.val)})
       IN  SubSeq(rest, 1, ahead) \o <<x>> \o SubSeq(rest, ahead + 1, Len(rest))

getInfluentialFactors(weights) ==
  SortByImportance([i \in 1..(Len(weights) - 1) |->
                      [factor |-> featureNames[i], importance |-> JsAbs(weights[i + 1])]])

\* the average under the weights 0.4, 0.3, 0.3 whatever the ensemble stores
WeightedAverageFixedWeights(ridgePrediction, treePrediction, neuralPrediction, weights) ==
  [sum |-> JsAdd(JsMul(ridgePrediction, Finite(EnsembleWeights[1])),
                 JsMul(treePrediction, Finite(EnsembleWeights[2]))),
   sigmoidWeight |-> Finite(EnsembleWeights[3]),
   sigmoidOf |-> neuralPrediction.val]

\* ridgePrediction * weights[0] + treePrediction * weights[1] + neuralPrediction * weights[2]:
\* the sum of the first two terms, and the weight and argument of the sigmoid
WeightedAverage(ridgePrediction, treePrediction, neuralPrediction, weights) ==
  [sum |-> JsAdd(JsMul(ridgePrediction, Finite(weights[1])),
                 JsMul(treePrediction, Finite(weights[2]))),
   sigmoidWeight |-> Finite(weights[3]),
   sigmoidOf |-> neuralPrediction.val]

\* One call: the result, the vector handed to the network, and the network
\* with the activations the forward pass leaves in it.
predictWithEnsemble(ensemble, network, student) ==
  LET features == JsWholes(extractFeatures(<<student>>)[1])
      ridgePrediction == predict(features, ensemble.models.ridge)
      treePrediction == predictWithTree(ensemble.models.tree, features)
      networkInput == normalizeFeatures(<<features>>)[1]
      pass == forwardPass(network, networkInput)
  IN  [result |-> [prediction |-> WeightedAverage(ridgePrediction, treePrediction,
                                                  pass.output[1], ensemble.weights),
                   confidence |-> EnsembleConfidence,
                   factors |-> getInfluentialFactors(ensemble.models.ridge),
                   model |-> "Ensemble (Ridge + Tree + Neural)"],
       networkInput |-> networkInput,
       network |-> pass.network]

\* createEnsemble with the three trained models as they come out of the
\* training: { models: { ridge, tree, neural }, weights: [0.4, 0.3, 0.3] }
createEnsemble(ridgeModel, decisionTree, neuralNet) ==
  [models |-> [ridge |-> ridgeModel, tree |-> decisionTree, neural |-> neuralNet],
   weights |-> EnsembleWeights]

\* an EnsembleModel a caller put together, with weights of its own
HandBuiltWeights == <<Frac(1, 2), Frac(1, 2), Frac(0, 1)>>

InitEnsemble ==
  /\ \E n \in 1..MaxEnsembleCalls : \E ys \in [1..n -> EnsembleYears] :
       \E ss \in [1..n -> Semesters] : \E created \in BOOLEAN :
         \E ridge \in RidgeModels : \E tree \in EnsembleTrees : \E neural \in NeuralNetworks :
           /\ call = [fn |-> "predictWithEnsemble",
                      created |-> created,
                      ensemble |-> IF created THEN createEnsemble(ridge, tree, neural)
                                   ELSE [createEnsemble(ridge, tree, neural)
                                           EXCEPT !.weights = HandBuiltWeights],
                      students |-> [i \in 1..n |-> PartialStudent(ys[i], ss[i])]]
           /\ frame = [done |-> 0, network |-> neural, networkInputs |-> <<>>,
                       results |-> <<>>]
  /\ outcome = Pending

\* predictWithEnsemble(ensemble, student) for the next student
PredictWithEnsemble ==
  /\ call.fn = "predictWithEnsemble"
  /\ outcome.status = "pending"
  /\ frame.done < Len(call.students)
  /\ LET run == predictWithEnsemble(call.ensemble, frame.network,
                                    call.students[frame.done + 1])
         results == Append(frame.results, run.result)
     IN  /\ frame' = [done |-> frame.done + 1, network |-> run.network,
                      networkInputs |-> Append(frame.networkInputs, run.networkInput),
                      results |-> results]
         /\ outcome' = IF frame.done + 1 = Len(call.students) THEN Returned(results)
                       ELSE outcome
  /\ UNCHANGED call

NextEnsemble == PredictWithEnsemble

SpecEnsemble == InitEnsemble /\ [][NextEnsemble]_vars

\* C20: in predictWithEnsemble the three member models are evaluated on the
\* same student's feature vector; the vector fed to the network is the
\* student's features under the z-score normalization, so two students whose
\* extracted feature vectors differ give the network different inputs.
NetworkInputFollowsFeatures ==
  call.fn = "predictWithEnsemble" =>
    \A i, j \in 1..frame.done :
      extractFeatures(<<call.students[i]>>) # extractFeatures(<<call.students[j]>>)
        => frame.networkInputs[i] # frame.networkInputs[j]

\* Predictions have been returned for two students whose feature vectors differ.
EnsemblePredictedTwoStudents ==
  /\ call.fn = "predictWithEnsemble"
  /\ outcome.status = "returned"
  /\ frame.done = 2
  /\ extractFeatures(<<call.students[1]>>) # extractFeatures(<<call.students[2]>>)


\* the output neuron's input sum for one student: bias + sum of weight * input
NetworkSum(network, student) ==
  LET layer == network.layers[1]
      input == normalizeFeatures(<<JsWholes(extractFeatures(<<student>>)[1])>>)[1]
  IN  JsAdd(layer.biases[1],
            JsSum([j \in 1..Len(layer.weights[1]) |-> JsMul(layer.weights[1][j], input[j])]))

MaxRidgeRows == 3

RidgeFeatureCounts == {1, 2}

RidgeValues == {0, 1}

RidgeCoefficients == {-1, 2}

RidgeAlphas == {0, 1}

matrixMultiply(A, B) ==
  [i \in 1..Len(A) |->
     [j \in 1..Len(B[1]) |-> JsSum([k \in 1..Len(B) |-> JsMul(A[i][k], B[k][j])])]]

transpose(matrix) ==
  [colIndex \in 1..Len(matrix[1]) |-> [r \in 1..Len(matrix) |-> matrix[r][colIndex]]]

matrixAdd(A, B) ==
  [i \in 1..Len(A) |-> [j \in 1..Len(A[i]) |-> JsAdd(A[i][j], B[i][j])]]

\* the matrix as it is, whatever the scalar
scalarMultiplyByOne(matrix, scalar) == matrix

scalarMultiply(matrix, scalar) ==
  [i \in 1..Len(matrix) |-> [j \in 1..Len(matrix[i]) |-> JsMul(matrix[i][j], scalar)]]

identityMatrix(size) ==
  [i \in 1..size |-> [j \in 1..size |-> IF i = j THEN JsWhole(1) ELSE JsWhole(0)]]

matrixVectorMultiply(matrix, vector) ==
  [r \in 1..Len(matrix) |->
     JsSum([i \in 1..Len(matrix[r]) |-> JsMul(matrix[r][i], vector[i])])]

\* a > b; false when either is NaN
JsGreater(a, b) ==
  /\ a.kind # "NaN"
  /\ b.kind # "NaN"
  /\ a # b
  /\ JsMax(a, b) = a

\* the row among i..n with the largest |augmented[k][i]|, the first of them
RECURSIVE FindPivot(_, _, _, _)
FindPivot(augmented, i, k, maxRow) ==
  IF k > Len(augmented) THEN maxRow
  ELSE FindPivot(augmented, i, k + 1,
                 IF JsGreater(JsAbs(augmented[k][i]), JsAbs(augmented[maxRow][i]))
                   THEN k ELSE maxRow)

\* forward elimination from column i on
RECURSIVE ForwardEliminate(_, _)
ForwardEliminate(augmented, i) ==
  LET n == Len(augmented)
      maxRow == FindPivot(augmented, i, i + 1, i)
      swapped == [augmented EXCEPT ![i] = augmented[maxRow], ![maxRow] = augmented[i]]
      Cleared(k) ==
        LET factor == JsDiv(swapped[k][i], swapped[i][i])
        IN  [j \in 1..(n + 1) |->
               IF j < i THEN swapped[k][j]
               ELSE JsSub(swapped[k][j], JsMul(factor, swapped[i][j]))]
  IN  IF i > n THEN augmented
      ELSE ForwardEliminate([k \in 1..n |-> IF k > i THEN Cleared(k) ELSE swapped[k]],
                            i + 1)

\* back substitution: the entries i..n of the solution
RECURSIVE BackSubstitute(_, _)
BackSubstitute(augmented, i) ==
  LET n == Len(augmented)
      below == BackSubstitute(augmented, i + 1)
      RECURSIVE Subtract(_, _)
      Subtract(value, j) ==
        IF j > n THEN value
        ELSE Subtract(JsSub(value, JsMul(augmented[i][j], below[j - i])), j + 1)
  IN  IF i > n THEN <<>>
      ELSE <<JsDiv(Subtract(augmented[i][n + 1], i + 1), augmented[i][i])>> \o below

solveLinearSystem(A, b) ==
  LET augmented == [i \in 1..Len(A) |-> Append(A[i], b[i])]
  IN  BackSubstitute(ForwardEliminate(augmented, 1), 1)

ridgeRegression(X, y, alpha) ==
  LET XWithBias == [r \in 1..Len(X) |-> <<JsWhole(1)>> \o X[r]]
      m == Len(XWithBias[1])
      XTX == matrixMultiply(transpose(XWithBias), XWithBias)
      identity == identityMatrix(m)
      regularized == matrixAdd(XTX, scalarMultiply(identity, alpha))
      XTy == matrixVectorMultiply(transpose(XWithBias), y)
  IN  solveLinearSystem(regularized, XTy)

\* y = b + sum_i c_i * x_i on every row, for the weights (b, c_1, ..., c_m)
LinearTargets(X, w) ==
  [r \in 1..Len(X) |-> w[1] + SumSeq([i \in 1..Len(X[r]) |-> w[i + 1] * X[r][i]])]

InitRidge ==
  /\ \E n \in 1..MaxRidgeRows : \E m \in RidgeFeatureCounts :
       \E X \in [1..n -> [1..m -> RidgeValues]] :
         \E w \in [1..(m + 1) -> RidgeCoefficients] : \E alpha \in RidgeAlphas :
           call = [fn |-> "ridgeRegression", X |-> X, y |-> LinearTargets(X, w),
                   alpha |-> alpha]
  /\ frame = NoFrame
  /\ outcome = Pending

RidgeRegression ==
  /\ call.fn = "ridgeRegression"
  /\ outcome.status = "pending"
  /\ outcome' = Returned(ridgeRegression([r \in 1..Len(call.X) |-> JsWholes(call.X[r])],
                                         JsWholes(call.y), JsWhole(call.alpha)))
  /\ UNCHANGED <<call, frame>>

NextRidge == RidgeRegression

SpecRidge == InitRidge /\ [][NextRidge]_vars


\* determinant of a square matrix of integers, by expansion along the first row
RECURSIVE Determinant(_)
Determinant(M) ==
  LET n == Len(M)
      Minor(c) == [r \in 1..(n - 1) |->
                     [j \in 1..(n - 1) |-> M[r + 1][IF j < c THEN j ELSE j + 1]]]
  IN  IF n = 0 THEN 1
      ELSE SumSeq([c \in 1..n |->
                     (IF c % 2 = 1 THEN 1 ELSE -1) * M[1][c] * Determinant(Minor(c))])

\* the feature columns and the column of ones are linearly independent: some
\* choice of as many rows as there are columns has a non-zero determinant
ColumnsIndependent(X) ==
  LET cols == Len(X[1]) + 1
      WithOnes(r) == <<1>> \o X[r]
  IN  \E rows \in [1..cols -> 1..Len(X)] :
        /\ \A a, b \in 1..cols : a < b => rows[a] < rows[b]
        /\ Determinant([a \in 1..cols |-> WithOnes(rows[a])]) # 0

\* C22: ridgeRegression with alpha = 0, on targets generated exactly as
\* y = b + sum_i c_i * x_i from feature rows whose columns together with the
\* constant-1 column are linearly independent, returns the weight vector
\* (b, c_1, ..., c_m), bias first, exactly in exact arithmetic.
RidgeRecoversCoefficients ==
  (call.fn = "ridgeRegression" /\ outcome.status = "returned" /\ call.alpha = 0) =>
    \A w \in [1..(Len(call.X[1]) + 1) -> RidgeCoefficients] :
      (call.y = LinearTargets(call.X, w) /\ ColumnsIndependent(call.X))
        => outcome.value = JsWholes(w)

\* Weights have been returned for alpha = 0 and three rows of two features
\* with independent columns, the largest pivot not in the first row.
RidgeSolvedIndependentRows ==
  /\ call.fn = "ridgeRegression"
  /\ outcome.status = "returned"
  /\ call.alpha = 0
  /\ Len(call.X) = 3
  /\ Len(call.X[1]) = 2
  /\ ColumnsIndependent(call.X)
  /\ call.X[1][1] < call.X[3][1]


(***************************************************************************)
(* semanticSearch: TF-IDF scores of the documents made of a student's      *)
(* names, email, course and department.  A score is a sum of               *)
(* count * ln(N / df) / length; with at most four documents N / df is a    *)
(* product of powers of 2 and 3, and a score is kept as the exponents:     *)
(* (two * ln 2 + three * ln 3) / len.                                      *)
(***************************************************************************)
MaxSemanticStudents == 2

SemanticFirstNames == {<<"a">>, <<"A">>, <<"a", "b">>}

SemanticLastNames == {<<"b">>, <<>>}

SemanticCourses == {<<"c">>, <<"a", " ", "c">>}

SemanticQueries == {<<>>, <<"a">>, <<"a", "b">>, <<"A", " ", "b">>}

SemanticStudent(i, first, last, crs) ==
  [SearchStudent(i, first, last, <<"d">>, crs, 1) EXCEPT !.email = <<"e">>]

\* `${firstName} ${lastName} ${email} ${course} ${department}`
Document(student) ==
  student.firstName \o <<" ">> \o student.lastName \o <<" ">> \o student.email
    \o <<" ">> \o student.course \o <<" ">> \o student.department

\* str.split(/\s+/): the pieces between the runs of spaces, an empty piece
\* before a leading run and after a trailing one
RECURSIVE SplitLoop(_, _, _, _, _)
SplitLoop(str, i, pieces, piece, afterSpace) ==
  IF i > Len(str) THEN Append(pieces, piece)
  ELSE IF str[i] = " "
         THEN (IF afterSpace THEN SplitLoop(str, i + 1, pieces, piece, TRUE)
               ELSE SplitLoop(str, i + 1, Append(pieces, piece), <<>>, TRUE))
  ELSE SplitLoop(str, i + 1, pieces, Append(piece, str[i]), FALSE)

SplitWhitespace(str) == SplitLoop(str, 1, <<>>, <<>>, FALSE)

\* how often p divides n
RECURSIVE Exponent(_, _)
Exponent(p, n) == IF n % p = 0 THEN 1 + Exponent(p, n \div p) ELSE 0

\* p * ln 2 + q * ln 3 > 0, for integers below 300 in size:
\* 1.58496 < ln 3 / ln 2 < 1.58497 and no such quotient lies in between
LogPositive(p, q) ==
  IF p >= 0 /\ q >= 0 THEN p + q > 0
  ELSE IF p <= 0 /\ q <= 0 THEN FALSE
  ELSE IF p > 0 THEN p * 100000 > (-q) * 158496
  ELSE (-p) * 100000 < q * 158496

ScorePositive(score) == LogPositive(score.two, score.three)

\* x > y
ScoreGreater(x, y) ==
  LogPositive(x.two * y.len - y.two * x.len, x.three * y.len - y.three * x.len)

\* the number of documents that contain the term as a token
DocsWithToken(documents, queryTerm) ==
  Cardinality({d \in 1..Len(documents) :
                 queryTerm \in Range(SplitWhitespace(toLowerCase(documents[d])))})

\* documents.filter(d => d.toLowerCase().includes(queryTerm)).length
DocsIncluding(documents, queryTerm) ==
  Cardinality({d \in 1..Len(documents) : Includes(toLowerCase(documents[d]), queryTerm)})

calculateTFIDF(documents, query) ==
  LET queryTerms == SplitWhitespace(toLowerCase(query))
      docCount == Len(documents)
      Score(doc) ==
        LET docTerms == SplitWhitespace(toLowerCase(doc))
            termFreq(term) == Count(docTerms, term)
            docsWithTerm(t) == DocsIncluding(documents, queryTerms[t])
            divisor(t) == IF docsWithTerm(t) = 0 THEN 1 ELSE docsWithTerm(t)
        IN  [two |-> SumSeq([t \in 1..Len(queryTerms) |->
                       termFreq(queryTerms[t])
                         * (Exponent(2, docCount) - Exponent(2, divisor(t)))]),
             three |-> SumSeq([t \in 1..Len(queryTerms) |->
                         termFreq(queryTerms[t])
                           * (Exponent(3, docCount) - Exponent(3, divisor(t)))]),
             len |-> Len(docTerms)]
  IN  [d \in 1..Len(documents) |-> Score(documents[d])]

\* .sort((a, b) => b.score - a.score)
RECURSIVE SortByTfIdf(_)
SortByTfIdf(items) ==
  IF items = <<>> THEN <<>>
  ELSE LET n == Len(items)
           x == items[n]
           rest == SortByTfIdf(SubSeq(items, 1, n - 1))
           ahead == Cardinality({i \in 1..Len(rest) : ~ScoreGreater(x.score, rest[i].score)})
       IN  SubSeq(rest, 1, ahead) \o <<x>> \o SubSeq(rest, ahead + 1, Len(rest))

semanticSearch(students, query) ==
  LET documents == [i \in 1..Len(students) |-> Document(students[i])]
      tfidfScores == calculateTFIDF(documents, query)
      items == [index \in 1..Len(students) |->
                  [student |-> students[index], score |-> tfidfScores[index]]]
      kept == SelectSeq(items, LAMBDA item : ScorePositive(item.score))
      sorted == SortByTfIdf(kept)
  IN  [i \in 1..Len(sorted) |-> sorted[i].student]

InitSemantic ==
  /\ \E n \in 1..MaxSemanticStudents :
       \E firsts \in [1..n -> SemanticFirstNames] : \E lasts \in [1..n -> SemanticLastNames] :
         \E crs \in [1..n -> SemanticCourses] : \E query \in SemanticQueries :
           call = [fn |-> "semanticSearch",
                   students |-> [i \in 1..n |-> SemanticStudent(i, firsts[i], lasts[i], crs[i])],
                   query |-> query]
  /\ frame = NoFrame
  /\ outcome = Pending

SemanticSearch ==
  /\ call.fn = "semanticSearch"
  /\ outcome.status = "pending"
  /\ outcome' = Returned(semanticSearch(call.students, call.query))
  /\ UNCHANGED <<call, frame>>

NextSemantic == SemanticSearch

SpecSemantic == InitSemantic /\ [][NextSemantic]_vars

\* the score with the document frequency counted over tokens:
\* idf = ln(N / max(1, number of documents that contain the term as a token))
TokenScore(students, query, student) ==
  LET documents == [i \in 1..Len(students) |-> Document(students[i])]
      queryTerms == SplitWhitespace(toLowerCase(query))
      docTerms == SplitWhitespace(toLowerCase(Document(student)))
      df(t) == Max2(1, DocsWithToken(documents, queryTerms[t]))
  IN  [two |-> SumSeq([t \in 1..Len(queryTerms) |->
                 Count(docTerms, queryTerms[t])
                   * (Exponent(2, Len(students)) - Exponent(2, df(t)))]),
       three |-> SumSeq([t \in 1..Len(queryTerms) |->
                   Count(docTerms, queryTerms[t])
                     * (Exponent(3, Len(students)) - Exponent(3, df(t)))]),
       len |-> Len(docTerms)]

\* C23: semanticSearch returns exactly the records whose score is > 0, in
\* descending score order, where score is the sum over query terms of
\* tf * idf, tf = (occurrences of the term among the document's lower-cased
\* whitespace-separated tokens) / (number of tokens), and
\* idf = ln(N / max(1, number of documents that contain the term as a token)).
SemanticSearchIsTokenTfIdf ==
  (call.fn = "semanticSearch" /\ outcome.status = "returned") =>
    LET result == outcome.value
        Score(s) == TokenScore(call.students, call.query, s)
    IN  /\ \A i \in 1..Len(call.students) :
             Count(result, call.students[i])
               = (IF ScorePositive(Score(call.students[i])) THEN 1 ELSE 0)
        /\ Len(result) <= Len(call.students)
        /\ \A i, j \in 1..Len(result) :
             i < j => ~ScoreGreater(Score(result[j]), Score(result[i]))

\* A search has returned where the query term is a token of one document and
\* only a part of a token of another.
SemanticSearchedPartOfToken ==
  /\ call.fn = "semanticSearch"
  /\ outcome.status = "returned"
  /\ \E t \in Range(SplitWhitespace(toLowerCase(call.query))) :
       LET documents == [i \in 1..Len(call.students) |-> Document(call.students[i])]
       IN  /\ DocsWithToken(documents, t) >= 1
           /\ DocsWithToken(documents, t) < DocsIncluding(documents, t)


(***************************************************************************)
(* multiKeySort: hybridQuickSort under the comparator made of the sort     *)
(* keys, with the default threshold.                                       *)
(***************************************************************************)
MaxMultiKeyLen == 3

MultiKeyNames == {<<"a">>, <<"A">>, <<"b">>}

MultiKeyTimes == {0, 1}

MultiKeyYears == {1, 2}

MultiKeyStudent(i, yr, name, time) ==
  [id |-> i, year |-> yr, firstName |-> name, enrollmentDate |-> [time |-> time]]

MultiKeySeqs ==
  { <<>>, <<Desc("firstName")>>, <<Asc("year"), Asc("firstName")>>,
    <<Desc("enrollmentDate"), Asc("year")>>,
    <<Asc("firstName"), Desc("year"), Asc("enrollmentDate")>> }

\* two kinds of student for the arrays long enough to be partitioned
LongArrayKinds ==
  { <<<<1, <<"a">>, 0>>, <<1, <<"b">>, 1>>>>,
    <<<<2, <<"A">>, 0>>, <<2, <<"a">>, 0>>>>,
    <<<<1, <<"b">>, 1>>, <<2, <<"b">>, 0>>>> }

multiKeySort(students, sortKeys) == hybridQuickSort(students, sortKeys, DefaultThreshold)

InitMultiKey ==
  /\ \E keys \in MultiKeySeqs :
       \/ \E n \in 0..MaxMultiKeyLen : \E ys \in [1..n -> MultiKeyYears] :
            \E names \in [1..n -> MultiKeyNames] : \E times \in [1..n -> MultiKeyTimes] :
              call = [fn |-> "multiKeySort",
                      students |-> [i \in 1..n |->
                                      MultiKeyStudent(i, ys[i], names[i], times[i])],
                      sortKeys |-> keys]
       \/ \E kinds \in LongArrayKinds : \E which \in [1..DefaultThreshold -> 1..2] :
            call = [fn |-> "multiKeySort",
                    students |-> [i \in 1..DefaultThreshold |->
                                    LET kind == kinds[which[i]]
                                    IN  MultiKeyStudent(i, kind[1], kind[2], kind[3])],
                    sortKeys |-> keys]
  /\ frame = NoFrame
  /\ outcome = Pending

MultiKeySort ==
  /\ call.fn = "multiKeySort"
  /\ outcome.status = "pending"
  /\ outcome' = Returned(multiKeySort(call.students, call.sortKeys))
  /\ UNCHANGED <<call, frame>>

NextMultiKey == MultiKeySort

SpecMultiKey == InitMultiKey /\ [][NextMultiKey]_vars

\* x comes before y in the order of the values of one field
ValueBefore(field, x, y) ==
  IF TypeOfField(field) = "number" THEN x < y
  ELSE IF TypeOfField(field) = "Date" THEN x.time < y.time
  ELSE localeCompare(x, y) < 0

\* the key sequence orders a strictly before b: on the first key where their
\* values differ, a's value comes first for asc and last for desc
OrdersBefore(sortKeys, a, b) ==
  \E k \in 1..Len(sortKeys) :
    /\ \A j \in 1..(k - 1) : a[sortKeys[j].field] = b[sortKeys[j].field]
    /\ a[sortKeys[k].field] # b[sortKeys[k].field]
    /\ IF sortKeys[k].direction = "asc"
         THEN ValueBefore(sortKeys[k].field, a[sortKeys[k].field], b[sortKeys[k].field])
         ELSE ValueBefore(sortKeys[k].field, b[sortKeys[k].field], a[sortKeys[k].field])

\* C24: multiKeySort returns a permutation of the students ordered
\* lexicographically by the key sequence: for any two records the first key on
\* which their field values (both numbers, both strings or both dates) differ
\* decides their order, ascending for asc and reversed for desc, and no record
\* is placed before another that the key sequence orders strictly before it.
MultiKeySortOrdersByKeys ==
  (call.fn = "multiKeySort" /\ outcome.status # "pending") =>
    /\ outcome.status = "returned"
    /\ SameElements(outcome.value, call.students)
    /\ \A i, j \in 1..Len(outcome.value) :
         i < j => ~OrdersBefore(call.sortKeys, outcome.value[j], outcome.value[i])

\* An array long enough to be partitioned has been sorted on two keys, the
\* second of which had to decide between two of its records.
MultiKeySortedOnSecondKey ==
  /\ call.fn = "multiKeySort"
  /\ outcome.status = "returned"
  /\ Len(call.students) >= DefaultThreshold
  /\ Len(call.sortKeys) >= 2
  /\ outcome.value # call.students
  /\ \E i, j \in 1..Len(call.students) :
       /\ call.students[i][call.sortKeys[1].field] = call.students[j][call.sortKeys[1].field]
       /\ OrdersBefore(call.sortKeys, call.students[j], call.students[i])
       /\ i < j


(***************************************************************************)
(* The arrays the five public sorts read and write.  frame.heap holds the  *)
(* arrays by reference (their place in the heap); call.arr is the          *)
(* reference the caller passes, outcome.value the reference returned.  A   *)
(* callee that sorts in place rewrites the array at the reference given to *)
(* it.                                                                     *)
(***************************************************************************)
MaxFrameLen == 3

FrameNumbers == {-1, 0, 2, 12}

FrameThresholds == {0, DefaultThreshold}

FrameBucketCounts == {1, 2}

FrameSorts == {"hybridQuickSort", "timSort", "radixSort", "bucketSort", "multiKeySort"}

\* result = arr: the same array under a second name
SpreadAlias(heap, ref) == [heap |-> heap, ref |-> ref]

\* [...arr]: a new array with the elements of the one at ref
SpreadCopy(heap, ref) == [heap |-> Append(heap, heap[ref]), ref |-> Len(heap) + 1]

\* a callee working in place on the array at ref
InPlace(heap, ref, Sorted(_)) == [heap EXCEPT ![ref] = Sorted(heap[ref])]

hybridQuickSortOnHeap(heap, arr, cmp, threshold) ==
  LET result == SpreadCopy(heap, arr)
  IN  [heap |-> InPlace(result.heap, result.ref,
                        LAMBDA a : quickSortHybrid(a, 1, Len(a), cmp, threshold)),
       outcome |-> Returned(result.ref)]

timSortOnHeap(heap, arr, cmp) ==
  LET result == SpreadCopy(heap, arr)
      n == Len(heap[arr])
  IN  [heap |-> InPlace(result.heap, result.ref,
                        LAMBDA a : SizeLoop(RunLoop(a, 0, n, cmp), minMerge, n, cmp)),
       outcome |-> Returned(result.ref)]

radixSortOnHeap(heap, arr) ==
  LET result == SpreadCopy(heap, arr)
  IN  IF Len(heap[arr]) <= 1 THEN [heap |-> result.heap, outcome |-> Returned(result.ref)]
      ELSE [heap |-> InPlace(result.heap, result.ref,
                             LAMBDA a : RadixLoop(Nums(a), SeqMax(a), 1)),
            outcome |-> Returned(result.ref)]

\* the buckets and the array they are gathered in are new arrays
bucketSortOnHeap(heap, grades, bucketCount) ==
  LET result == SpreadCopy(heap, grades)
      sorted == bucketSort(heap[grades], bucketCount)
  IN  IF Len(heap[grades]) <= 1
        THEN [heap |-> result.heap, outcome |-> Returned(result.ref)]
      ELSE IF sorted.status = "threw" THEN [heap |-> heap, outcome |-> sorted]
      ELSE [heap |-> Append(heap, sorted.value), outcome |-> Returned(Len(heap) + 1)]

multiKeySortOnHeap(heap, students, sortKeys) ==
  hybridQuickSortOnHeap(heap, students, sortKeys, DefaultThreshold)

InitFrame ==
  /\ \E n \in 0..MaxFrameLen :
       \/ \E ys \in [1..n -> Years] : \E ss \in [1..n -> Semesters] :
            \E keys \in SortKeySeqs :
              /\ frame = [heap |-> <<StudentArray(n, ys, ss)>>]
              /\ \/ \E t \in FrameThresholds :
                      call = [fn |-> "hybridQuickSort", arr |-> 1, compareFn |-> keys,
                              threshold |-> t]
                 \/ call = [fn |-> "timSort", arr |-> 1, compareFn |-> keys]
                 \/ call = [fn |-> "multiKeySort", arr |-> 1, sortKeys |-> keys]
       \/ \E xs \in [1..n -> FrameNumbers] :
            /\ frame = [heap |-> <<xs>>]
            /\ \/ call = [fn |-> "radixSort", arr |-> 1]
               \/ \E bc \in FrameBucketCounts :
                    call = [fn |-> "bucketSort", arr |-> 1, bucketCount |-> bc]
  /\ outcome = Pending

FrameReturn(run) ==
  /\ outcome.status = "pending"
  /\ frame' = [heap |-> run.heap]
  /\ outcome' = run.outcome
  /\ UNCHANGED call

FrameHybridQuickSort ==
  /\ call.fn = "hybridQuickSort"
  /\ Len(frame.heap) = 1
  /\ FrameReturn(hybridQuickSortOnHeap(frame.heap, call.arr, call.compareFn, call.threshold))

FrameTimSort ==
  /\ call.fn = "timSort"
  /\ Len(frame.heap) = 1
  /\ FrameReturn(timSortOnHeap(frame.heap, call.arr, call.compareFn))

FrameRadixSort ==
  /\ call.fn = "radixSort"
  /\ Len(frame.heap) = 1
  /\ FrameReturn(radixSortOnHeap(frame.heap, call.arr))

FrameBucketSort ==
  /\ call.fn = "bucketSort"
  /\ Len(frame.heap) = 1
  /\ FrameReturn(bucketSortOnHeap(frame.heap, call.arr, call.bucketCount))

FrameMultiKeySort ==
  /\ call.fn = "multiKeySort"
  /\ Len(frame.heap) = 1
  /\ FrameReturn(multiKeySortOnHeap(frame.heap, call.arr, call.sortKeys))

NextFrame ==
  \/ FrameHybridQuickSort
  \/ FrameTimSort
  \/ FrameRadixSort
  \/ FrameBucketSort
  \/ FrameMultiKeySort

SpecFrame == InitFrame /\ [][NextFrame]_vars

\* C25: hybridQuickSort, timSort, radixSort, bucketSort and multiKeySort leave
\* the caller's input array unchanged: after the call it has the same length
\* and the same elements at the same positions as before, and the result is
\* a distinct array.
SortsLeaveInputUnchanged ==
  [][call.fn \in FrameSorts =>
       /\ frame'.heap[call.arr] = frame.heap[call.arr]
       /\ outcome'.status = "returned" =>
            /\ outcome'.value # call.arr
            /\ outcome'.value \in 1..Len(frame'.heap)]_vars

\* A sort has returned an array in which two students stand in another order
\* than in the array it was given.
SortReorderedStudents ==
  /\ call.fn \in {"hybridQuickSort", "timSort", "multiKeySort"}
  /\ outcome.status = "returned"
  /\ Len(frame.heap) = 2
  /\ frame.heap[outcome.value] # frame.heap[call.arr]


(***************************************************************************)
(* analyzePerformanceTrends: the trend line, the moving averages, the      *)
(* seasonality, the volatility and the forecast of a series.               *)
(***************************************************************************)
MaxTrendLen == 4

ShortWindow == 7

LongWindow == 30

ForecastPeriods == 5

PerformanceData(values) == [i \in 1..Len(values) |-> [date |-> i, value |-> values[i]]]

linearRegression(x, y) ==
  LET n == JsWhole(Len(x))
      sumX == JsSum(x)
      sumY == JsSum(y)
      sumXY == JsSum([i \in 1..Len(x) |-> JsMul(x[i], y[i])])
      sumX2 == JsSum([i \in 1..Len(x) |-> JsMul(x[i], x[i])])
      slope == JsDiv(JsSub(JsMul(n, sumXY), JsMul(sumX, sumY)),
                     JsSub(JsMul(n, sumX2), JsMul(sumX, sumX)))
      intercept == JsDiv(JsSub(sumY, JsMul(slope, sumX)), n)
      yMean == JsDiv(sumY, n)
      totalSumSquares == JsSum([i \in 1..Len(y) |-> JsSquare(JsSub(y[i], yMean))])
      residualSumSquares ==
        JsSum([i \in 1..Len(y) |->
                 JsSquare(JsSub(y[i], JsAdd(JsMul(slope, x[i]), intercept)))])
  IN  [slope |-> slope, intercept |-> intercept,
       rSquared |-> JsSub(JsWhole(1), JsDiv(residualSumSquares, totalSumSquares))]

\* for (let i = window - 1; i < values.length; i++) result.push(sum / window)
calculateMovingAverage(values, window) ==
  [k \in 1..Max2(0, Len(values) - window + 1) |->
     JsDiv(JsSum(SubSeq(values, k, k + window - 1)), JsWhole(window))]

autocorrelation(values, lag) ==
  LET n == Len(values) - lag
      mean == JsDiv(JsSum(values), JsWhole(Len(values)))
      numerator == JsSum([i \in 1..n |->
                            JsMul(JsSub(values[i], mean), JsSub(values[i + lag], mean))])
      denominator == JsSum([i \in 1..Len(values) |-> JsSquare(JsSub(values[i], mean))])
  IN  IF denominator = JsWhole(0) THEN JsWhole(0) ELSE JsDiv(numerator, denominator)

\* for (let period = 2; period <= Math.floor(values.length / 2); period++) { ... }
RECURSIVE SeasonLoop(_, _, _, _)
SeasonLoop(values, period, maxCorrelation, bestPeriod) ==
  IF period <= Len(values) \div 2
    THEN LET correlation == autocorrelation(values, period)
         IN  IF JsGreater(correlation, maxCorrelation)
               THEN SeasonLoop(values, period + 1, correlation, period)
               ELSE SeasonLoop(values, period + 1, maxCorrelation, bestPeriod)
    ELSE [period |-> bestPeriod, strength |-> maxCorrelation]

detectSeasonality(values) == SeasonLoop(values, 2, JsWhole(0), 1)

generateForecast(values, slope, intercept, periods) ==
  [i \in 1..periods |-> JsAdd(JsMul(slope, JsWhole(Len(values) - 1 + i)), intercept)]

\* the fields of the result are worked out in the order they are written: an
\* error raised by calculateVolatility leaves analyzePerformanceTrends
analyzePerformanceTrends(performanceData) ==
  LET values == [i \in 1..Len(performanceData) |-> JsWhole(performanceData[i].value)]
      xValues == [i \in 1..Len(performanceData) |-> JsWhole(i - 1)]
      line == linearRegression(xValues, values)
      volatility == calculateVolatility(values)
  IN  IF volatility.status = "threw" THEN volatility
      ELSE Returned(
             [trend |-> [slope |-> line.slope, intercept |-> line.intercept,
                         rSquared |-> line.rSquared,
                         direction |-> IF JsGreater(line.slope, JsWhole(0)) THEN "increasing"
                                       ELSE IF JsGreater(JsWhole(0), line.slope)
                                              THEN "decreasing"
                                       ELSE "stable"],
              movingAverages |-> [short |-> calculateMovingAverage(values, ShortWindow),
                                  long |-> calculateMovingAverage(values, LongWindow)],
              seasonality |-> detectSeasonality(values),
              volatility |-> volatility.value,
              forecast |-> generateForecast(values, line.slope, line.intercept,
                                            ForecastPeriods)])

InitTrend ==
  /\ \E n \in 0..MaxTrendLen : \E values \in [1..n -> SeriesValues] :
       call = [fn |-> "analyzePerformanceTrends", performanceData |-> PerformanceData(values)]
  /\ frame = NoFrame
  /\ outcome = Pending

AnalyzePerformanceTrends ==
  /\ call.fn = "analyzePerformanceTrends"
  /\ outcome.status = "pending"
  /\ outcome' = analyzePerformanceTrends(call.performanceData)
  /\ UNCHANGED <<call, frame>>

NextTrend == AnalyzePerformanceTrends

SpecTrend == InitTrend /\ [][NextTrend]_vars

\* C26: analyzePerformanceTrends returns a TrendAnalysis without raising an
\* error for every series that has at least one point, in particular for a
\* one-point series: the empty-input error of calculateStatistics is never
\* raised from inside the volatility computation.
TrendsNeverRaise ==
  (/\ call.fn = "analyzePerformanceTrends"
   /\ Len(call.performanceData) >= 1
   /\ outcome.status # "pending")
    => outcome.status = "returned"

\* The analysis of a one-point series has ended.
TrendOfOnePointEnded ==
  /\ call.fn = "analyzePerformanceTrends"
  /\ Len(call.performanceData) = 1
  /\ outcome.status # "pending"


(***************************************************************************)
(* topologicalSort: the order of the result, and what it holds.            *)
(***************************************************************************)
\* every prerequisite id is the id of a listed course
AllPrereqsListed(courses) ==
  \A i \in 1..Len(courses) : Range(courses[i].prerequisites) \subseteq ListedIds(courses)

\* the places of the course with this id in the result
PlacesOf(result, id) ==
  {i \in 1..Len(result) : result[i] # UndefinedCourse /\ result[i].id = id}

\* C27: for an acyclic prerequisite graph in which every prerequisite id is
\* the id of a listed course, topologicalSort returns every course exactly
\* once and places each course after all of its prerequisites.
TopoPrerequisitesComeFirst ==
  (/\ call.fn = "topologicalSort"
   /\ outcome.status = "returned"
   /\ CyclicIds(call.courses) = {}
   /\ AllPrereqsListed(call.courses))
    => /\ Len(outcome.value) = Len(call.courses)
       /\ \A i \in 1..Len(call.courses) :
            Cardinality(PlacesOf(outcome.value, call.courses[i].id)) = 1
       /\ \A i \in 1..Len(call.courses) :
            \A p \in Range(call.courses[i].prerequisites) :
              \A at \in PlacesOf(outcome.value, call.courses[i].id) :
                \A before \in PlacesOf(outcome.value, p) : before < at

\* An acyclic list in which some course has a listed prerequisite has been
\* sorted.
TopoSortedAcyclicWithEdge ==
  /\ call.fn = "topologicalSort"
  /\ outcome.status = "returned"
  /\ CyclicIds(call.courses) = {}
  /\ AllPrereqsListed(call.courses)
  /\ \E i \in 1..Len(call.courses) : call.courses[i].prerequisites # <<>>

\* C28: every element of the list returned by topologicalSort is one of the
\* input courses, and no input course appears twice, also when some course
\* lists a prerequisite id that is not the id of any input course.
TopoResultHoldsInputCourses ==
  (call.fn = "topologicalSort" /\ outcome.status = "returned") =>
    /\ \A i \in 1..Len(outcome.value) :
         \E j \in 1..Len(call.courses) : outcome.value[i] = call.courses[j]
    /\ \A j \in 1..Len(call.courses) :
         Cardinality(PlacesOf(outcome.value, call.courses[j].id)) <= 1

\* A list in which a course names a prerequisite that no course has as its id
\* has been sorted.
TopoSortedUnknownPrerequisite ==
  /\ call.fn = "topologicalSort"
  /\ outcome.status = "returned"
  /\ ~AllPrereqsListed(call.courses)


(***************************************************************************)
(* boyerMooreSearch: the progress of the shift.                            *)
(***************************************************************************)
\* C29: boyerMooreSearch terminates for every text and every pattern, the
\* empty pattern included: the shift increases by at least 1 in every loop
\* iteration, after a mismatch and after a full match.
BoyerMooreShiftAdvances ==
  [][BMInLoop => frame'.shift >= frame.shift + 1]_vars

\* The loop has gone through an iteration for the empty pattern in a text
\* that is not empty.
BoyerMooreMatchedEmptyPattern ==
  /\ call.fn = "boyerMooreSearch"
  /\ call.pattern = <<>>
  /\ call.text # <<>>
  /\ Len(frame.positions) >= 1


(***************************************************************************)
(* The students store: the slice's state in frame.state, and in            *)
(* frame.requests the fetchStudents calls, each idle, pending, fulfilled   *)
(* or rejected.  Every dispatch is one step; the store returns nothing, so *)
(* outcome stays as it is.                                                 *)
(***************************************************************************)
MaxStoreStudents == 2

MaxFetches == 2

StoreIds == {"s1", "s2"}

StoreYears == {1, 2}

StoreStudent(id, yr) == [id |-> id, year |-> yr]

\* null
Null == Undefined

initialState == [students |-> <<>>, loading |-> FALSE, error |-> Null, selectedStudent |-> Null]

\* action.error.message of a rejected call: none, or the message of an abort
ErrorMessages == {Undefined, Some("Aborted")}

IdsOf(students) == {students[i].id : i \in 1..Len(students)}

\* state.students.findIndex(s => s.id === id), 1-based, 0 for -1
findIndex(students, id) ==
  IF id \in IdsOf(students)
    THEN CHOOSE i \in 1..Len(students) :
           students[i].id = id /\ \A k \in 1..(i - 1) : students[k].id # id
    ELSE 0

InitStore ==
  /\ call = [fn |-> "studentsSlice"]
  /\ frame = [state |-> initialState, requests |-> [r \in 1..MaxFetches |-> "idle"]]
  /\ outcome = Pending

\* the reducer's new state, with the requests as they are
Reduce(state) ==
  /\ call.fn = "studentsSlice"
  /\ frame' = [frame EXCEPT !.state = state]
  /\ UNCHANGED <<call, outcome>>

SetSelectedStudent(payload) ==
  Reduce([frame.state EXCEPT !.selectedStudent = payload])

AddStudent(payload) ==
  /\ Len(frame.state.students) < MaxStoreStudents
  /\ Reduce([frame.state EXCEPT !.students = Append(@, payload)])

UpdateStudent(payload) ==
  LET index == findIndex(frame.state.students, payload.id)
  IN  Reduce(IF index # 0 THEN [frame.state EXCEPT !.students[index] = payload]
             ELSE frame.state)

DeleteStudent(payload) ==
  Reduce([frame.state EXCEPT
            !.students = SelectSeq(@, LAMBDA s : s.id # payload)])

ClearError == Reduce([frame.state EXCEPT !.error = Null])

\* dispatch(fetchStudents()): the pending event of a new call
FetchStudentsPending(r) ==
  /\ call.fn = "studentsSlice"
  /\ frame.requests[r] = "idle"
  /\ frame' = [state |-> [frame.state EXCEPT !.loading = TRUE, !.error = Null],
               requests |-> [frame.requests EXCEPT ![r] = "pending"]]
  /\ UNCHANGED <<call, outcome>>

\* the promise of the call resolves, with []
FetchStudentsFulfilled(r) ==
  /\ call.fn = "studentsSlice"
  /\ frame.requests[r] = "pending"
  /\ frame' = [state |-> [frame.state EXCEPT !.loading = FALSE, !.students = <<>>],
               requests |-> [frame.requests EXCEPT ![r] = "fulfilled"]]
  /\ UNCHANGED <<call, outcome>>

\* the call is aborted before its promise resolves
FetchStudentsRejected(r, message) ==
  /\ call.fn = "studentsSlice"
  /\ frame.requests[r] = "pending"
  /\ frame' = [state |-> [frame.state EXCEPT
                            !.loading = FALSE,
                            !.error = IF message = Undefined \/ message[1] = ""
                                        THEN Some("Failed to fetch students")
                                        ELSE message],
               requests |-> [frame.requests EXCEPT ![r] = "rejected"]]
  /\ UNCHANGED <<call, outcome>>

NextStore ==
  \/ \E id \in StoreIds : \E yr \in StoreYears :
       \/ SetSelectedStudent(Some(StoreStudent(id, yr)))
       \/ AddStudent(StoreStudent(id, yr))
       \/ UpdateStudent(StoreStudent(id, yr))
  \/ SetSelectedStudent(Null)
  \/ \E id \in StoreIds : DeleteStudent(id)
  \/ ClearError
  \/ \E r \in 1..MaxFetches :
       \/ FetchStudentsPending(r)
       \/ FetchStudentsFulfilled(r)
       \/ \E message \in ErrorMessages : FetchStudentsRejected(r, message)

SpecStore == InitStore /\ [][NextStore]_vars

\* C30: in the students store, a student inserted by addStudent stays in
\* state.students until a deleteStudent with its id is dispatched, under
\* every interleaving of addStudent, updateStudent and deleteStudent with the
\* pending, fulfilled and rejected events of one or more fetchStudents calls.
StoreKeepsAddedStudents ==
  [][call.fn = "studentsSlice" =>
       \A id \in StoreIds :
         (id \in IdsOf(frame.state.students) /\ ~DeleteStudent(id))
           => id \in IdsOf(frame'.state.students)]_vars

\* A student is in the store while a fetchStudents call is pending.
StudentAddedDuringFetch ==
  /\ call.fn = "studentsSlice"
  /\ frame.state.students # <<>>
  /\ \E r \in 1..MaxFetches : frame.requests[r] = "pending"
=============================================================================
